---- MODULE Spec2Model ----
(***************************************************************************)
(* Exam transcripts API: the credential store (table "user"), the exam     *)
(* catalog (table "exam") and the assignment ledger (table "user_exam"),   *)
(* with the request handlers and repository calls that read and write      *)
(* them.  Every request runs in its own database session; a handler is a   *)
(* sequence of database round trips (query, ..., query, commit).  The      *)
(* queries of a handler read the committed state and are taken as one      *)
(* step; commit() flushes the pending INSERT / UPDATE / DELETE, the        *)
(* storage layer checks its constraints atomically, and the refresh that   *)
(* follows belongs to the same step.  Whatever other sessions commit       *)
(* between a handler's queries and its commit is an interleaving here: a   *)
(* handler does not yield inside one server process, so such sessions are  *)
(* those of the other server processes and scripts on the same database.   *)
(***************************************************************************)
EXTENDS Integers, Sequences, FiniteSets, Bags, TLC

(* ------------------------------ bounds --------------------------------- *)
\* concurrent requests (database sessions) in flight
NumClients == 2
\* ids ever handed out by uuid4() per table
MaxUsers == 4
MaxExams == 2
MaxAssignments == 2
\* rows of the users table in the directory specification
MaxAccounts == 101
\* sessions the clients hold
MaxTokens == 1
\* exams of the catalog in the public listing specification
MaxCatalog == 3
\* the clock stops here
MaxTime == 31

(* ------------------------- program constants --------------------------- *)
HTTP_200_OK == 200
HTTP_401_UNAUTHORIZED == 401
HTTP_403_FORBIDDEN == 403
HTTP_404_NOT_FOUND == 404
HTTP_409_CONFLICT == 409
HTTP_422_UNPROCESSABLE_ENTITY == 422
HTTP_500_INTERNAL_SERVER_ERROR == 500
\* date_cls.today(): dates are day numbers relative to the day of the run
today == 0
\* default of UserRepository.get_all's limit parameter
limit == 100
\* Settings.access_token_expire_minutes
access_token_expire_minutes == 30
\* Settings.secret_key
secret_key == "secret_key"

ADMIN == "admin"
SUPERVISOR == "supervisor"
USER == "user"
UserRole == {ADMIN, SUPERVISOR, USER}

(* ------------------------------ inputs --------------------------------- *)
\* e-mail addresses offered to UserRepository.create / update
Emails == {"student@example.com", "new@example.com"}
\* raw titles of a create-exam body, as sequences of characters: two that
\* differ only in whitespace, one that is too short, one other title
RawTitles ==
    { <<"M","a","t","h">>, <<" ","M","a","t","h"," "," ">>,
      <<"A"," "," ","I">>, <<" ","A","I"," ">>, <<" "," "," ">> }
\* votes of a vote body, in thousandths of a point: within [0, 100] and
\* outside of it
GoodVotes == {59996, 100000}
BadVotes == {0 - 1000, 100001}
\* a vote of NULL is the empty sequence, a vote v is <<v>>
NULL == << >>

VARIABLES user, exam, user_exam, uuid, req, response, now, tokens

vars == <<user, exam, user_exam, uuid, req, response, now, tokens>>
tables == <<user, exam, user_exam, uuid>>
\* now is the server's clock (datetime.utcnow) in minutes; tokens are the
\* sessions the clients hold, each the access token of a login and whether
\* the client has logged out with it.  The server keeps no record of them.
sessions == <<now, tokens>>

(* ------------------------- exception handlers -------------------------- *)
\* BaseCustomException.status_code as each subclass's __init__ leaves it:
\* DatabaseError calls super().__init__ twice, the second time with 409.
status_code(exc) ==
    CASE exc = "AuthenticationError" -> HTTP_401_UNAUTHORIZED
      [] exc = "AuthorizationError" -> HTTP_403_FORBIDDEN
      [] exc = "ValidationError" -> HTTP_422_UNPROCESSABLE_ENTITY
      [] exc = "NotFoundError" -> HTTP_404_NOT_FOUND
      [] exc = "ConflictError" -> HTTP_409_CONFLICT
      [] exc = "DatabaseError" -> HTTP_409_CONFLICT
      [] OTHER -> HTTP_500_INTERNAL_SERVER_ERROR

CustomExceptions ==
    {"AuthenticationError", "AuthorizationError", "ValidationError",
     "NotFoundError", "ConflictError", "DatabaseError"}

\* The response status of an exception that leaves a handler: the handler
\* registered for the most specific class wins; anything that is not a
\* BaseCustomException (IntegrityError, StaleDataError, ...) reaches the
\* catch-all.
add_exception_handlers(exc) ==
    IF exc = "ValidationError" THEN HTTP_422_UNPROCESSABLE_ENTITY
    ELSE IF exc \in CustomExceptions THEN status_code(exc)
    ELSE HTTP_500_INTERNAL_SERVER_ERROR

(* ------------------------------ requests ------------------------------- *)
\* what the client of the request that finished in the last step sees;
\* NoResponse after a step that finished none
Response(op, status) == [op |-> op, status |-> status]
NoResponse == Response("none", 0)

\* req is the bag of requests in flight: each has been through its reads
\* and waits for its commit.  The server takes its next step once the
\* response of the last one is out.  A worker is free to take a new request.
Idle == response = NoResponse /\ BagCardinality(req) < NumClients

\* the request r in flight is one of this handler and takes its commit step
Running(r, op) == response = NoResponse /\ r.op = op

\* a request that ends in its first step, with this response
Respond(op, status) ==
    /\ req' = req
    /\ response' = Response(op, status)
    /\ UNCHANGED sessions

\* a request that goes on to its commit, carrying what it has read
Continue(r) ==
    /\ req' = req (+) SetToBag({r})
    /\ response' = NoResponse
    /\ UNCHANGED sessions

\* the request r in flight ends with this response
Finish(r, status) ==
    /\ req' = req (-) SetToBag({r})
    /\ response' = Response(r.op, status)
    /\ UNCHANGED sessions

\* requests in flight that will INSERT a row of the given kind at commit
Pending(ops) ==
    BagCardinality([r \in {x \in BagToSet(req) : x.op \in ops} |-> req[r]])

(* ------------------------------ queries -------------------------------- *)
\* UserRepository.get_by_id: the rows with that id (none, or one)
user_get_by_id(user_id) == {u \in user : u.id = user_id}

\* ExamRepository.get_by_id
exam_get_by_id(exam_id) == {e \in exam : e.id = exam_id}

\* the query with a filter that matches nothing
user_exam_of_nothing(user_id, exam_id) == {}

\* the query without its filter
user_exam_of_anything(user_id, exam_id) == user_exam

\* the UserExam row of a (user, exam) pair
user_exam_of(user_id, exam_id) ==
    {ue \in user_exam : ue.user_id = user_id /\ ue.exam_id = exam_id}

\* ids a client may present: every id handed out so far, and 0 for an id
\* that was never handed out
KnownIds(n) == 0..n

(* ----------------------------- validators ------------------------------ *)
RECURSIVE lstrip(_)
lstrip(v) == IF v # << >> /\ Head(v) = " " THEN lstrip(Tail(v)) ELSE v

\* " ".join(v.split()) for a v without leading whitespace
RECURSIVE join_split(_)
join_split(v) ==
    IF v = << >> THEN << >>
    ELSE IF Head(v) # " " THEN <<Head(v)>> \o join_split(Tail(v))
    ELSE LET u == lstrip(v) IN IF u = << >> THEN << >> ELSE <<" ">> \o join_split(u)

\* ExamCreate.validate_title: the normalised title, or <<>> for ValueError
validate_title(v) ==
    LET title == join_split(lstrip(v))
    IN IF title = << >> \/ Len(title) < 3 THEN << >> ELSE title

\* ExamCreate.validate_date: TRUE when the date is accepted
validate_date(v) == ~(v < today)

\* round(v, 2) on thousandths: to the nearest hundredth.  A tie goes by the
\* float's binary expansion; it is taken to even here, and no vote of the
\* model is a tie.
round2(v) ==
    LET q == v \div 10
        r == v % 10
    IN IF r < 5 THEN q * 10
       ELSE IF r > 5 THEN (q + 1) * 10
       ELSE IF q % 2 = 0 THEN q * 10 ELSE (q + 1) * 10

\* the vote schema without its range constraint
VoteAssignment_unchecked(v) == <<round2(v)>>

\* VoteAssignment.vote: Field(ge=0, le=100) and validate_vote; the validated
\* vote as <<v>>, or NULL when the body is rejected
VoteAssignment(v) ==
    IF 0 <= v /\ v <= 100000 THEN <<round2(v)>> ELSE NULL

(* ----------------------------- permissions ----------------------------- *)
\* the check that lets a supervisor pass too
check_admin_permission_or_supervisor(user_role) == user_role \in {ADMIN, SUPERVISOR}

\* PermissionChecker.check_admin_permission: TRUE when no exception is raised
check_admin_permission(user_role) == user_role = ADMIN

\* the check that lets an administrator pass too
check_supervisor_permission_or_admin(user_role) == user_role \in {SUPERVISOR, ADMIN}

\* PermissionChecker.check_supervisor_permission
check_supervisor_permission(user_role) == user_role = SUPERVISOR

\* PermissionChecker.check_supervisor_or_admin_permission
check_supervisor_or_admin_permission(user_role) == user_role \in {SUPERVISOR, ADMIN}

\* the check that lets every role value pass
check_user_permission_any(user_role) == TRUE

\* PermissionChecker.check_user_permission
check_user_permission(user_role) == user_role \in {USER, SUPERVISOR, ADMIN}

\* what an endpoint may require of the caller's role
Requirements == {"admin-only", "supervisor-only", "supervisor-or-admin", "any-authenticated"}

\* require_admin, require_supervisor, require_supervisor_or_admin,
\* require_user: TRUE when the checker raises nothing
require(required, user_role) ==
    CASE required = "admin-only" -> check_admin_permission(user_role)
      [] required = "supervisor-only" -> check_supervisor_permission(user_role)
      [] required = "supervisor-or-admin" -> check_supervisor_or_admin_permission(user_role)
      [] required = "any-authenticated" -> check_user_permission(user_role)

\* values of the role column, a String(20): the three roles, and values that
\* are none of them
RoleValues == UserRole \cup {"ADMIN", "Supervisor", "guest", ""}

(* ---------------------------- token service ---------------------------- *)
\* jwt.encode(to_encode, key): the claims, and the key of the signature
jwt_encode(to_encode, key) == [claims |-> <<to_encode>>, key |-> key]

\* a timedelta or None taken as a condition: None and timedelta(0) are false
bool(expires_delta) == expires_delta # NULL /\ expires_delta # <<0>>

\* SecurityManager.create_access_token; expires_delta is NULL or <<minutes>>
create_access_token(data, expires_delta) ==
    LET expire == IF bool(expires_delta)
                  THEN now + expires_delta[1]
                  ELSE now + access_token_expire_minutes
    IN jwt_encode([sub |-> data.sub, user_id |-> data.user_id,
                   role |-> data.role, exp |-> expire], secret_key)

\* jwt.decode(token, key) raises JWTError: the token is not a JWT, its
\* signature is not of this key, or its exp is before the current time
jwt_decode_raises(token, key) ==
    \/ token.claims = << >>
    \/ token.key # key
    \/ token.claims[1].exp < now

\* verify_token refusing a token from the minute of its exp on
verify_token_early(token) ==
    IF jwt_decode_raises(token, secret_key) \/ token.claims[1].exp = now
    THEN NULL ELSE token.claims

\* SecurityManager.verify_token: <<payload>>, or NULL for None
verify_token(token) ==
    IF jwt_decode_raises(token, secret_key) THEN NULL ELSE token.claims

\* a token that is not a JWT
invalid_token == [claims |-> << >>, key |-> ""]

\* a token for the administrator, in date, signed with a key that is not the
\* server's
forged_token ==
    jwt_encode([sub |-> "admin@example.com", user_id |-> 1, role |-> ADMIN,
                exp |-> now + access_token_expire_minutes], "another_key")

(* ------------------------------ passwords ------------------------------ *)
\* bcrypt.gensalt(): the salts a hash can be made with
gensalt == {"salt"}

\* SecurityManager.hash_password: bcrypt.hashpw keeps the salt in the hash
hash_password(password, salt) == <<"$2b$", salt, password>>

\* a stored hash that bcrypt can read: the prefix, the salt, the digest
is_bcrypt(hashed_password) ==
    Len(hashed_password) = 3 /\ hashed_password[1] = "$2b$"

\* the exception that leaves SecurityManager.verify_password, "" when it
\* returns: bcrypt.checkpw raises ValueError("Invalid salt") for a hash it
\* cannot read, and verify_password has no except clause
verify_password_raises(plain_password, hashed_password) ==
    IF is_bcrypt(hashed_password) THEN "" ELSE "ValueError"

\* the comparison that finds every password right
verify_password_any(plain_password, hashed_password) == TRUE

\* SecurityManager.verify_password: bcrypt.checkpw hashes the plain password
\* with the salt of the stored hash and compares
verify_password(plain_password, hashed_password) ==
    hash_password(plain_password, hashed_password[2]) = hashed_password

(* -------------------------------- Init --------------------------------- *)
\* DatabaseInitializer._create_initial_users on an empty database
default_users ==
    { [id |-> 1, email |-> "admin@example.com", role |-> ADMIN,
       hashed_password |-> hash_password("admin123", "salt")],
      [id |-> 2, email |-> "supervisor@example.com", role |-> SUPERVISOR,
       hashed_password |-> hash_password("supervisor123", "salt")],
      [id |-> 3, email |-> "student@example.com", role |-> USER,
       hashed_password |-> hash_password("student123", "salt")] }

Init ==
    /\ user = default_users
    /\ exam = {}
    /\ user_exam = {}
    /\ uuid = [user |-> 3, exam |-> 0, user_exam |-> 0]
    /\ req = EmptyBag
    /\ response = NoResponse
    /\ now = 0
    /\ tokens = {}

(* --------------------------- storage layer ----------------------------- *)
\* a ledger without the constraint
uq_user_exam_dropped(rows) == TRUE

\* UserExam.__table_args__: UniqueConstraint('user_id', 'exam_id')
uq_user_exam(rows) ==
    \A a, b \in rows : (a.user_id = b.user_id /\ a.exam_id = b.exam_id) => a = b

\* a user table without the constraint
user_email_unique_dropped(rows) == TRUE

\* User.email: Column(unique=True)
user_email_unique(rows) == \A a, b \in rows : a.email = b.email => a = b

\* Exam.title: Column(unique=True)
exam_title_unique(rows) == \A a, b \in rows : a.title = b.title => a = b

\* UserExam.user_id / exam_id: ForeignKey(..., ondelete="CASCADE").
\* PostgreSQL checks it; SQLite as the engine is created here (no PRAGMA
\* foreign_keys) does not, hence the parameter.
fk_user_exam(row, foreign_keys) ==
    foreign_keys => (user_get_by_id(row.user_id) # {} /\ exam_get_by_id(row.exam_id) # {})

\* next value of uuid4() for a table: an id no row ever had
uuid4(table) == uuid[table] + 1

(* ------------------------ authentication ------------------------------- *)
\* get_current_user: the user row of the token's subject, {} when the user
\* no longer exists (401)
get_current_user(sub) == user_get_by_id(sub)

\* the role of the authenticated user
role_of(current_user) == (CHOOSE u \in current_user : TRUE).role

\* the users who register for exams: the student and the users created later
Students == 3..uuid.user

\* create-exam requests: the administrator's with every title, and one with
\* a past date; the student's with a valid and with an invalid body; the
\* supervisor's with a valid body
CreateExamRequests ==
    {[sub |-> 1, title |-> t, date |-> today] : t \in RawTitles}
    \cup {[sub |-> 1, title |-> <<"M","a","t","h">>, date |-> today - 1]}
    \cup {[sub |-> 3, title |-> t, date |-> today] : t \in {<<"M","a","t","h">>, <<" "," "," ">>}}
    \cup {[sub |-> 2, title |-> <<"M","a","t","h">>, date |-> today]}

\* delete-exam requests: the administrator's for every id, one of the
\* student and one of the supervisor
DeleteExamRequests ==
    {[sub |-> 1, exam_id |-> e] : e \in KnownIds(uuid.exam)}
    \cup {[sub |-> sub, exam_id |-> 1] : sub \in {2, 3}}

\* vote requests: the supervisor's for every exam and every student with
\* every vote in range, one for a user who does not exist, and for the
\* student's first exam with the votes out of range; one of the student and
\* one of the administrator, and one of the student with a vote out of range
VoteRequests ==
    {[sub |-> 2, exam_id |-> e, user_id |-> u, vote |-> v] :
        e \in KnownIds(uuid.exam), u \in Students, v \in GoodVotes}
    \cup {[sub |-> 2, exam_id |-> 1, user_id |-> 0, vote |-> 100000]}
    \cup {[sub |-> 2, exam_id |-> 1, user_id |-> 3, vote |-> v] : v \in BadVotes}
    \cup {[sub |-> sub, exam_id |-> 1, user_id |-> 3, vote |-> 100000] : sub \in {1, 3}}
    \cup {[sub |-> 3, exam_id |-> 1, user_id |-> 3, vote |-> 100001]}

(* ------------- POST /private/users/exams/{exam_id}/register ------------ *)
\* request arrival, with the token's subject and the path's exam_id: the
\* get_current_active_user dependency (401), the handler's get_by_id (404)
\* and assign_exam_to_user's existence query; None is returned when the pair
\* is there, which the handler turns into 409
register_for_exam_request(sub, exam_id) ==
    /\ Idle
    /\ IF get_current_user(sub) = {}
       THEN Respond("register_for_exam", HTTP_401_UNAUTHORIZED)
       ELSE IF exam_get_by_id(exam_id) = {}
       THEN Respond("register_for_exam", HTTP_404_NOT_FOUND)
       ELSE IF user_exam_of(sub, exam_id) # {}
       THEN Respond("register_for_exam", HTTP_409_CONFLICT)
       ELSE /\ uuid.user_exam + Pending({"register_for_exam"}) < MaxAssignments
            /\ Continue([op |-> "register_for_exam", user_id |-> sub, exam_id |-> exam_id])
    /\ UNCHANGED tables

register_for_exam ==
    Idle /\ \E sub \in Students, exam_id \in KnownIds(uuid.exam) :
        register_for_exam_request(sub, exam_id)

\* the outcome of assign_exam_to_user's add + commit for a new row: the
\* exception that leaves the repository, "" when the row is inserted
assign_exam_to_user_raises(row, foreign_keys) ==
    IF uq_user_exam(user_exam \cup {row}) /\ fk_user_exam(row, foreign_keys)
    THEN "" ELSE "IntegrityError"

\* assign_exam_to_user: add + commit + refresh.  No except clause: an
\* IntegrityError leaves the handler and reaches the catch-all handler.
assign_exam_to_user_commit(r) ==
    /\ Running(r, "register_for_exam")
    /\ \E foreign_keys \in BOOLEAN :
         LET row == [id |-> uuid4("user_exam"), user_id |-> r.user_id,
                     exam_id |-> r.exam_id, vote |-> NULL]
             exc == assign_exam_to_user_raises(row, foreign_keys)
         IN IF exc = ""
            THEN /\ user_exam' = user_exam \cup {row}
                 /\ uuid' = [uuid EXCEPT !.user_exam = row.id]
                 /\ Finish(r, HTTP_200_OK)
            ELSE /\ Finish(r, add_exception_handlers(exc))
                 /\ UNCHANGED <<user_exam, uuid>>
    /\ UNCHANGED <<user, exam>>

(* ---------------------- POST /private/admin/exams ---------------------- *)
\* request arrival, with the token's subject and the body: get_current_user
\* (401), then the ExamCreate body (422), then require_admin in the handler
\* body (403)
create_exam_request(sub, title, date) ==
    /\ Idle
    /\ LET current_user == get_current_user(sub)
       IN IF current_user = {}
          THEN Respond("create_exam", HTTP_401_UNAUTHORIZED)
          ELSE IF validate_title(title) = << >> \/ ~validate_date(date)
          THEN Respond("create_exam", HTTP_422_UNPROCESSABLE_ENTITY)
          ELSE IF ~check_admin_permission(role_of(current_user))
          THEN Respond("create_exam", HTTP_403_FORBIDDEN)
          ELSE /\ uuid.exam + Pending({"create_exam"}) < MaxExams
               /\ Continue([op |-> "create_exam", role |-> role_of(current_user),
                            title |-> validate_title(title), date |-> date])
    /\ UNCHANGED tables

create_exam ==
    Idle /\ \E i \in CreateExamRequests : create_exam_request(i.sub, i.title, i.date)

\* the outcome of ExamRepository.create's add + commit: the exception that
\* leaves the repository ("except IntegrityError: raise ValidationError")
exam_create_raises(row) ==
    IF exam_title_unique(exam \cup {row}) THEN "" ELSE "ValidationError"

\* ExamRepository.create: add + commit + refresh
exam_create_commit(r) ==
    /\ Running(r, "create_exam")
    /\ LET row == [id |-> uuid4("exam"), title |-> r.title, date |-> r.date]
           exc == exam_create_raises(row)
       IN IF exc = ""
          THEN /\ exam' = exam \cup {row}
               /\ uuid' = [uuid EXCEPT !.exam = row.id]
               /\ Finish(r, HTTP_200_OK)
          ELSE /\ Finish(r, add_exception_handlers(exc))
               /\ UNCHANGED <<exam, uuid>>
    /\ UNCHANGED <<user, user_exam>>

(* --------------- PUT /private/supervisor/exams/{exam_id}/vote ---------- *)
\* request arrival, with the token's subject, the path's exam_id and the
\* body's user_id and vote: the get_current_supervisor_user dependency (401,
\* 403), the VoteAssignment body (422), the handler's get_by_id (404) and
\* assign_vote's query for the pair's row, None (404) when there is none
assign_vote_to_exam_request(sub, exam_id, user_id, vote) ==
    /\ Idle
    /\ LET current_user == get_current_user(sub)
           found == user_exam_of(user_id, exam_id)
       IN IF current_user = {}
          THEN Respond("assign_vote_to_exam", HTTP_401_UNAUTHORIZED)
          ELSE IF ~check_supervisor_permission(role_of(current_user))
          THEN Respond("assign_vote_to_exam", HTTP_403_FORBIDDEN)
          ELSE IF VoteAssignment(vote) = NULL
          THEN Respond("assign_vote_to_exam", HTTP_422_UNPROCESSABLE_ENTITY)
          ELSE IF exam_get_by_id(exam_id) = {}
          THEN Respond("assign_vote_to_exam", HTTP_404_NOT_FOUND)
          ELSE IF found = {}
          THEN Respond("assign_vote_to_exam", HTTP_404_NOT_FOUND)
          ELSE Continue([op |-> "assign_vote_to_exam", role |-> role_of(current_user),
                         id |-> (CHOOSE ue \in found : TRUE).id,
                         body |-> vote, vote |-> VoteAssignment(vote)])
    /\ UNCHANGED tables

assign_vote_to_exam ==
    Idle /\ \E i \in VoteRequests :
        assign_vote_to_exam_request(i.sub, i.exam_id, i.user_id, i.vote)

\* an assignment that keeps the vote it has
assign_vote_keeps(row, vote) == IF row.vote = NULL THEN [row EXCEPT !.vote = vote] ELSE row

\* an assignment that clears the vote it has
assign_vote_clears(row, vote) ==
    IF row.vote = NULL THEN [row EXCEPT !.vote = vote] ELSE [row EXCEPT !.vote = NULL]

\* UserExam.is_graded
is_graded(row) == row.vote # NULL

\* the row as assign_vote leaves it: user_exam.vote = vote
assign_vote(row, vote) == [row EXCEPT !.vote = vote]

\* assign_vote: user_exam.vote = vote; commit; refresh.  The flush is an
\* UPDATE of the loaded row by primary key; when the row is gone it matches
\* nothing and StaleDataError leaves the handler.
assign_vote_commit(r) ==
    /\ Running(r, "assign_vote_to_exam")
    /\ LET loaded == {ue \in user_exam : ue.id = r.id}
       IN IF loaded = {}
          THEN /\ Finish(r, add_exception_handlers("StaleDataError"))
               /\ UNCHANGED user_exam
          ELSE /\ user_exam' = (user_exam \ loaded)
                                 \cup {assign_vote(ue, r.vote) : ue \in loaded}
               /\ Finish(r, HTTP_200_OK)
    /\ UNCHANGED <<user, exam, uuid>>

(* ------------- GET /private/supervisor/ungraded-assignments ------------ *)
\* the rows of the query: UserExam.vote.is_(None)
ungraded_assignments == {ue \in user_exam : ue.vote = NULL}

\* the entry of assignments_data for a row whose user and exam are loaded
assignments_data(ue) ==
    LET u == CHOOSE x \in user_get_by_id(ue.user_id) : TRUE
        e == CHOOSE x \in exam_get_by_id(ue.exam_id) : TRUE
    IN [user_id |-> ue.user_id, user_email |-> u.email,
        exam_id |-> ue.exam_id, exam_title |-> e.title, exam_date |-> e.date]

\* the request, with the token's subject: the get_current_supervisor_user
\* dependency (401, 403), the query and the loop over its rows.  A row whose
\* user or exam is gone has assignment.user or assignment.exam None, and the
\* AttributeError of its .email or .title leaves the handler.
get_ungraded_assignments_request(sub) ==
    /\ Idle
    /\ LET current_user == get_current_user(sub)
       IN response' =
            IF current_user = {}
            THEN Response("get_ungraded_assignments", HTTP_401_UNAUTHORIZED)
            ELSE IF ~check_supervisor_permission(role_of(current_user))
            THEN Response("get_ungraded_assignments", HTTP_403_FORBIDDEN)
            ELSE IF \E ue \in ungraded_assignments :
                      user_get_by_id(ue.user_id) = {} \/ exam_get_by_id(ue.exam_id) = {}
            THEN Response("get_ungraded_assignments", add_exception_handlers("AttributeError"))
            ELSE [op |-> "get_ungraded_assignments", status |-> HTTP_200_OK,
                  assignments |-> {assignments_data(ue) : ue \in ungraded_assignments}]
    /\ UNCHANGED <<tables, req, sessions>>

get_ungraded_assignments ==
    Idle /\ \E sub \in 1..uuid.user : get_ungraded_assignments_request(sub)

(* ------------------ DELETE /private/admin/exams/{exam_id} -------------- *)
\* request arrival, with the token's subject and the path's exam_id:
\* get_current_user (401), require_admin (403), the handler's get_by_id (404)
\* and ExamRepository.delete's get_by_id and db.delete(exam), which loads
\* exam.user_exams and marks the loaded rows for deletion
\* the ledger without the rows of an exam: what ondelete="CASCADE" leaves,
\* and the complement of Exam.user_exams
exam_cascade(exam_id, rows) == {ue \in rows : ue.exam_id # exam_id}

\* the ledger after the DELETEs of the rows a session marked for deletion
delete_orphan(loaded, rows) == {ue \in rows : ue.id \notin loaded}

delete_exam_request(sub, exam_id) ==
    /\ Idle
    /\ LET current_user == get_current_user(sub)
       IN IF current_user = {}
          THEN Respond("delete_exam", HTTP_401_UNAUTHORIZED)
          ELSE IF ~check_admin_permission(role_of(current_user))
          THEN Respond("delete_exam", HTTP_403_FORBIDDEN)
          ELSE IF exam_get_by_id(exam_id) = {}
          THEN Respond("delete_exam", HTTP_404_NOT_FOUND)
          ELSE Continue([op |-> "delete_exam", role |-> role_of(current_user),
                         exam_id |-> exam_id,
                         loaded |-> {ue.id : ue \in user_exam \ exam_cascade(exam_id, user_exam)}])
    /\ UNCHANGED tables

delete_exam ==
    Idle /\ \E i \in DeleteExamRequests : delete_exam_request(i.sub, i.exam_id)

\* ExamRepository.delete: commit.  The flush deletes the rows that
\* db.delete(exam) loaded (cascade="all, delete-orphan"), then the exam; a
\* storage layer that enforces the foreign key removes every other row of
\* the exam too (ondelete="CASCADE").  A DELETE that matches no row (the exam
\* or a loaded row is gone by now) is only a warning.
exam_delete_commit(r) ==
    /\ Running(r, "delete_exam")
    /\ exam' = exam \ exam_get_by_id(r.exam_id)
    /\ \E foreign_keys \in BOOLEAN :
         user_exam' = IF foreign_keys /\ exam_get_by_id(r.exam_id) # {}
                      THEN exam_cascade(r.exam_id, delete_orphan(r.loaded, user_exam))
                      ELSE delete_orphan(r.loaded, user_exam)
    /\ Finish(r, HTTP_200_OK)
    /\ UNCHANGED <<user, uuid>>

(* --------------------------- UserRepository ---------------------------- *)
\* the outcome of UserRepository.create's add + commit: the exception that
\* leaves the repository ("except IntegrityError: raise ValidationError")
user_create_raises(row) ==
    IF user_email_unique(user \cup {row}) THEN "" ELSE "ValidationError"

\* UserRepository.create(email, password, role): hash, add + commit + refresh,
\* one round trip.  The status of a repository call is the status_code of
\* the exception it raises, 200 when it returns the row.
user_create_call(email, role) ==
    /\ Idle
    /\ \E salt \in gensalt :
       LET row == [id |-> uuid4("user"), email |-> email, role |-> role,
                   hashed_password |-> hash_password("password123", salt)]
           exc == user_create_raises(row)
       IN IF exc = ""
          THEN /\ uuid.user < MaxUsers
               /\ user' = user \cup {row}
               /\ uuid' = [uuid EXCEPT !.user = row.id]
               /\ Respond("user_create", HTTP_200_OK)
          ELSE /\ Respond("user_create", add_exception_handlers(exc))
               /\ UNCHANGED <<user, uuid>>
    /\ UNCHANGED <<exam, user_exam>>

user_create ==
    Idle /\ \E email \in Emails, role \in {USER} : user_create_call(email, role)

\* the ledger without the rows of a user: what ondelete="CASCADE" leaves,
\* and the complement of User.user_exams
user_cascade(user_id, rows) == {ue \in rows : ue.user_id # user_id}

\* UserRepository.delete(user_id): get_by_id, False (status 0) when absent;
\* db.delete(user) loads user.user_exams and marks the rows for deletion
user_delete_call(user_id) ==
    /\ Idle
    /\ IF user_get_by_id(user_id) = {}
       THEN Respond("user_delete", 0)
       ELSE Continue([op |-> "user_delete", user_id |-> user_id,
                      loaded |-> {ue.id : ue \in user_exam \ user_cascade(user_id, user_exam)}])
    /\ UNCHANGED tables

user_delete ==
    Idle /\ \E user_id \in {0} \cup Students : user_delete_call(user_id)

\* UserRepository.delete: commit, as ExamRepository.delete's
user_delete_commit(r) ==
    /\ Running(r, "user_delete")
    /\ user' = user \ user_get_by_id(r.user_id)
    /\ \E foreign_keys \in BOOLEAN :
         user_exam' = IF foreign_keys /\ user_get_by_id(r.user_id) # {}
                      THEN user_cascade(r.user_id, delete_orphan(r.loaded, user_exam))
                      ELSE delete_orphan(r.loaded, user_exam)
    /\ Finish(r, HTTP_200_OK)
    /\ UNCHANGED <<exam, uuid>>

\* arguments of UserRepository.update: a new e-mail address, or a new role;
\* "" stands for an argument of None
Updates ==
    {[email |-> e, role |-> ""] : e \in Emails} \cup {[email |-> "", role |-> SUPERVISOR]}

\* UserRepository.update(user_id, email, password, role): get_by_id; None
\* (status 0) when the user is absent
user_update_call(user_id, email, role) ==
    /\ Idle
    /\ IF user_get_by_id(user_id) = {}
       THEN Respond("user_update", 0)
       ELSE Continue([op |-> "user_update", user_id |-> user_id,
                      email |-> email, role |-> role])
    /\ UNCHANGED tables

user_update ==
    Idle /\ \E user_id \in Students, u \in Updates : user_update_call(user_id, u.email, u.role)

\* the row as update leaves it before the commit
user_update_row(row, email, role) ==
    [row EXCEPT !.email = IF email # "" THEN email ELSE @,
                !.role = IF role # "" THEN role ELSE @]

\* the outcome of UserRepository.update's commit + refresh: the exception
\* that leaves the repository (there is no except clause), "" when the row
\* is written
user_update_raises(loaded, rows) ==
    IF loaded = {} THEN "StaleDataError"
    ELSE IF ~user_email_unique(rows) THEN "IntegrityError"
    ELSE ""

\* UserRepository.update: commit + refresh
user_update_commit(r) ==
    /\ Running(r, "user_update")
    /\ LET loaded == user_get_by_id(r.user_id)
           rows == (user \ loaded)
                     \cup {user_update_row(u, r.email, r.role) : u \in loaded}
           exc == user_update_raises(loaded, rows)
       IN IF exc = ""
          THEN /\ user' = rows
               /\ Finish(r, HTTP_200_OK)
          ELSE /\ Finish(r, add_exception_handlers(exc))
               /\ UNCHANGED user
    /\ UNCHANGED <<exam, user_exam, uuid>>

(* ------------------------------ responses ------------------------------ *)
\* the response of the request that just finished goes out to its client
send_response ==
    /\ response # NoResponse
    /\ response' = NoResponse
    /\ UNCHANGED <<tables, req, sessions>>

(* ------------------------------ commits -------------------------------- *)
\* the commit step of a request in flight, per handler
commit_register_for_exam == \E r \in BagToSet(req) : assign_exam_to_user_commit(r)

commit_create_exam == \E r \in BagToSet(req) : exam_create_commit(r)

commit_assign_vote_to_exam == \E r \in BagToSet(req) : assign_vote_commit(r)

commit_delete_exam == \E r \in BagToSet(req) : exam_delete_commit(r)

commit_user_delete == \E r \in BagToSet(req) : user_delete_commit(r)

commit_user_update == \E r \in BagToSet(req) : user_update_commit(r)

(* --------------------------- specifications ---------------------------- *)
\* the exam catalog and the assignment ledger
Next ==
    \/ send_response
    \/ register_for_exam
    \/ commit_register_for_exam
    \/ create_exam
    \/ commit_create_exam
    \/ assign_vote_to_exam
    \/ commit_assign_vote_to_exam
    \/ delete_exam
    \/ commit_delete_exam

Spec == Init /\ [][Next]_vars

\* the credential store, with registrations for an exam of the catalog
InitUsers ==
    /\ user = default_users
    /\ exam = {[id |-> 1, title |-> validate_title(<<"M","a","t","h">>), date |-> today]}
    /\ user_exam = {}
    /\ uuid = [user |-> 3, exam |-> 1, user_exam |-> 0]
    /\ req = EmptyBag
    /\ response = NoResponse
    /\ now = 0
    /\ tokens = {}

NextUsers ==
    \/ send_response
    \/ user_create
    \/ user_update
    \/ commit_user_update
    \/ user_delete
    \/ commit_user_delete
    \/ register_for_exam
    \/ commit_register_for_exam

SpecUsers == InitUsers /\ [][NextUsers]_vars

\* the exam catalog under its administration, with registrations
NextCatalog ==
    \/ send_response
    \/ create_exam
    \/ commit_create_exam
    \/ delete_exam
    \/ commit_delete_exam
    \/ register_for_exam
    \/ commit_register_for_exam

SpecCatalog == Init /\ [][NextCatalog]_vars

\* the assignment ledger under grading, without deletions
NextGrading ==
    \/ send_response
    \/ create_exam
    \/ commit_create_exam
    \/ register_for_exam
    \/ commit_register_for_exam
    \/ assign_vote_to_exam
    \/ commit_assign_vote_to_exam
    \/ get_ungraded_assignments

SpecGrading == Init /\ [][NextGrading]_vars

\* the supervisor's list while students register, are graded, and the
\* administrator deletes the exam
NextUngraded ==
    \/ send_response
    \/ register_for_exam
    \/ commit_register_for_exam
    \/ assign_vote_to_exam
    \/ commit_assign_vote_to_exam
    \/ delete_exam
    \/ commit_delete_exam
    \/ get_ungraded_assignments

SpecUngraded == InitUsers /\ [][NextUngraded]_vars

(* -------------------------- PermissionChecker -------------------------- *)
\* the default users with any values in their role column
InitPermissions ==
    /\ \E role \in [{u.id : u \in default_users} -> RoleValues] :
         user = {[u EXCEPT !.role = role[u.id]] : u \in default_users}
    /\ exam = {}
    /\ user_exam = {}
    /\ uuid = [user |-> 3, exam |-> 0, user_exam |-> 0]
    /\ req = EmptyBag
    /\ response = NoResponse
    /\ now = 0
    /\ tokens = {}

\* a requirement checked against the role of a user: 403 when the checker
\* raises, 200 when it returns
require_call ==
    /\ Idle
    /\ \E u \in user, required \in Requirements :
         response' = [op |-> required, role |-> u.role,
                      status |-> IF require(required, u.role)
                                 THEN HTTP_200_OK ELSE HTTP_403_FORBIDDEN]
    /\ UNCHANGED <<tables, req, sessions>>

NextPermissions ==
    \/ require_call
    \/ send_response

SpecPermissions == InitPermissions /\ [][NextPermissions]_vars

(* ---------------------------- SecurityManager -------------------------- *)
\* the expires_delta arguments: None, and timedeltas in minutes
ExpiresDeltas == {NULL, <<0>>, <<1>>, <<access_token_expire_minutes>>}

\* the time that passes between two requests, in minutes
Delays == {access_token_expire_minutes, access_token_expire_minutes + 1}

\* time passes while the server is between two steps
tick ==
    /\ response = NoResponse
    /\ \E d \in Delays :
         /\ now + d <= MaxTime
         /\ now' = now + d
    /\ UNCHANGED <<tables, req, response, tokens>>

\* create_access_token(data, expires_delta) for a user; the caller keeps
\* the token
create_access_token_call ==
    /\ Idle
    /\ Cardinality(tokens) < MaxTokens
    /\ \E u \in user, expires_delta \in ExpiresDeltas :
         LET data == [sub |-> u.email, user_id |-> u.id, role |-> u.role]
             access_token == create_access_token(data, expires_delta)
         IN /\ response' = [op |-> "create_access_token", status |-> HTTP_200_OK,
                            expires_delta |-> expires_delta,
                            access_token |-> access_token]
            /\ tokens' = tokens \cup {[access_token |-> access_token,
                                        logged_out |-> FALSE]}
    /\ UNCHANGED <<tables, req, now>>

\* verify_token(token) on a token issued earlier, on invalid_token, on
\* forged_token
verify_token_call ==
    /\ Idle
    /\ \E token \in {s.access_token : s \in tokens} \cup {invalid_token, forged_token} :
         response' = [op |-> "verify_token", status |-> HTTP_200_OK,
                      access_token |-> token,
                      payload |-> verify_token(token)]
    /\ UNCHANGED <<tables, req, sessions>>

NextToken ==
    \/ create_access_token_call
    \/ verify_token_call
    \/ tick
    \/ send_response

SpecToken == Init /\ [][NextToken]_vars

(* ------------------------- Authorization header ------------------------ *)
\* the Authorization header of a request: absent, of another scheme, or
\* Bearer with a token a client holds, with invalid_token, with forged_token
Authorizations ==
    {[scheme |-> ""], [scheme |-> "Basic"]}
    \cup {[scheme |-> "Bearer", credentials |-> t] :
            t \in {s.access_token : s \in tokens} \cup {invalid_token, forged_token}}

\* security = HTTPBearer(): the status of the HTTPException it raises, 0 when
\* it returns the credentials.  It refuses a request without the header or
\* with a scheme that is not Bearer, with 403 in FastAPI before 0.122 and
\* with 401 from then on; the project requires no version.
security(authorization) ==
    IF authorization.scheme = "Bearer"
    THEN {0}
    ELSE {HTTP_403_FORBIDDEN, HTTP_401_UNAUTHORIZED}

\* Depends(get_current_user), from the header: the outcomes, each with the
\* status of the HTTPException raised (0 when the user is returned) and the
\* id of the user
get_current_user_credentials(authorization) ==
    IF security(authorization) # {0}
    THEN {[status |-> st, sub |-> 0] : st \in security(authorization)}
    ELSE LET payload == verify_token(authorization.credentials)
         IN IF payload = NULL
            THEN {[status |-> HTTP_401_UNAUTHORIZED, sub |-> 0]}
            ELSE IF user_get_by_id(payload[1].user_id) = {}
            THEN {[status |-> HTTP_401_UNAUTHORIZED, sub |-> 0]}
            ELSE {[status |-> 0, sub |-> payload[1].user_id]}

\* the HTTPException of the dependency goes out as the response of the
\* request, whose handler does not run
raise_HTTPException(op, a) == Respond(op, a.status) /\ UNCHANGED tables

(* ------------------------------ /auth routes --------------------------- *)
\* strings that EmailStr refuses
NotEmails == {"not-an-email"}

LoginRequests ==
    [email : {"admin@example.com", "student@example.com", "nobody@example.com"}
               \cup NotEmails,
     password : {"admin123", "student123"}]

\* the exception that leaves AuthService.authenticate_user, "" when it
\* returns: verify_password's, for the user get_by_email found
authenticate_user_raises(email, password) ==
    IF \E u \in user : /\ u.email = email
                        /\ verify_password_raises(password, u.hashed_password) # ""
    THEN "ValueError" ELSE ""

\* AuthService.authenticate_user: the users it returns (none for None)
authenticate_user(email, password) ==
    {u \in user : u.email = email /\ verify_password(password, u.hashed_password)}

\* AuthService.create_access_token_for_user
create_access_token_for_user(u) ==
    create_access_token([sub |-> u.email, user_id |-> u.id, role |-> u.role],
                        <<access_token_expire_minutes>>)

\* POST /auth/login: the body is validated (422), then AuthService.login;
\* the client keeps the token of a login that succeeds while it has room
login_request(email, password) ==
    /\ Idle
    /\ LET authenticated == authenticate_user(email, password)
           exc == authenticate_user_raises(email, password)
       IN IF email \in NotEmails
          THEN /\ response' = [op |-> "login", email |-> email, password |-> password,
                               status |-> HTTP_422_UNPROCESSABLE_ENTITY,
                               access_token |-> NULL]
               /\ UNCHANGED tokens
          ELSE IF exc # ""
          THEN /\ response' = [op |-> "login", email |-> email, password |-> password,
                               status |-> add_exception_handlers(exc),
                               access_token |-> NULL]
               /\ UNCHANGED tokens
          ELSE IF authenticated = {}
          THEN /\ response' = [op |-> "login", email |-> email, password |-> password,
                               status |-> HTTP_401_UNAUTHORIZED,
                               access_token |-> NULL]
               /\ UNCHANGED tokens
          ELSE \E u \in authenticated :
                 LET access_token == create_access_token_for_user(u)
                 IN /\ response' = [op |-> "login", email |-> email,
                                    password |-> password, status |-> HTTP_200_OK,
                                    access_token |-> <<access_token>>]
                    /\ tokens' = IF Cardinality(tokens) < MaxTokens
                                 THEN tokens \cup {[access_token |-> access_token,
                                                     logged_out |-> FALSE]}
                                 ELSE tokens
    /\ UNCHANGED <<tables, req, now>>

login == Idle /\ \E r \in LoginRequests : login_request(r.email, r.password)

\* AuthService.logout(user): it returns True and does nothing else
AuthService_logout(current_user) == TRUE

\* POST /auth/logout; the client marks the session it has logged out with
logout_request(authorization) ==
    /\ Idle
    /\ \E a \in get_current_user_credentials(authorization) :
         IF a.status # 0
         THEN raise_HTTPException("logout", a)
         ELSE /\ response' = [op |-> "logout", status |-> HTTP_200_OK, sub |-> a.sub,
                              success |-> AuthService_logout(a.sub)]
              /\ tokens' = {IF s.access_token = authorization.credentials
                            THEN [s EXCEPT !.logged_out = TRUE] ELSE s : s \in tokens}
              /\ UNCHANGED <<tables, req, now>>

logout == \E authorization \in Authorizations : logout_request(authorization)

\* GET /auth/me
get_current_user_info_request(authorization) ==
    /\ Idle
    /\ \E a \in get_current_user_credentials(authorization) :
         IF a.status # 0
         THEN raise_HTTPException("get_current_user_info", a)
         ELSE /\ response' = [op |-> "get_current_user_info",
                              status |-> HTTP_200_OK, sub |-> a.sub]
              /\ UNCHANGED <<tables, req, sessions>>

get_current_user_info ==
    \E authorization \in Authorizations : get_current_user_info_request(authorization)

(* ----------------------- GET /private/admin/users ---------------------- *)
\* UserRepository.get_all(skip=0, limit=100, role_filter=None): the results
\* the query can give. It has no ORDER BY, so which rows fall within the
\* limit is up to the database.
RECURSIVE get_all(_)
get_all(rows) ==
    IF Cardinality(rows) <= limit
    THEN {rows}
    ELSE UNION {get_all(rows \ {row}) : row \in rows}

\* get_users
get_users_request(sub) ==
    LET current_user == get_current_user(sub)
        role == role_of(current_user)
    IN /\ IF current_user = {}
          THEN response' = Response("get_users", HTTP_401_UNAUTHORIZED)
          ELSE IF role \notin {"admin", "supervisor"}
          THEN response' = [op |-> "get_users", sub |-> sub,
                            status |-> HTTP_403_FORBIDDEN]
          ELSE \E all_users \in get_all(user) :
                 response' = [op |-> "get_users", sub |-> sub,
                              status |-> HTTP_200_OK,
                              users |-> IF role = "supervisor"
                                        THEN {u \in all_users : u.role = "user"}
                                        ELSE all_users]
       /\ UNCHANGED <<tables, req, sessions>>

get_users == Idle /\ \E sub \in 0..3 : get_users_request(sub)

\* an account added to the default ones
account(id) ==
    [id |-> id, email |-> "user" \o ToString(id) \o "@example.com",
     role |-> IF id % 10 = 0 THEN SUPERVISOR ELSE USER,
     hashed_password |-> hash_password("password123", "salt")]

\* the users table with the default users and any number of further accounts
InitDirectory ==
    /\ \E n \in 3..MaxAccounts :
         /\ user = default_users \cup {account(id) : id \in 4..n}
         /\ uuid = [user |-> n, exam |-> 0, user_exam |-> 0]
    /\ exam = {}
    /\ user_exam = {}
    /\ req = EmptyBag
    /\ response = NoResponse
    /\ now = 0
    /\ tokens = {}

NextDirectory ==
    \/ get_users
    \/ send_response

SpecDirectory == InitDirectory /\ [][NextDirectory]_vars

(* ----------------- the private routes, from the header ----------------- *)
\* the dependency on get_current_user is resolved first, and the handler
\* runs for the user it gave
authorized_register_for_exam(authorization, exam_id) ==
    /\ Idle
    /\ \E a \in get_current_user_credentials(authorization) :
         IF a.status # 0
         THEN raise_HTTPException("register_for_exam", a)
         ELSE register_for_exam_request(a.sub, exam_id)

authorized_get_ungraded_assignments(authorization) ==
    /\ Idle
    /\ \E a \in get_current_user_credentials(authorization) :
         IF a.status # 0
         THEN raise_HTTPException("get_ungraded_assignments", a)
         ELSE get_ungraded_assignments_request(a.sub)

authorized_get_users(authorization) ==
    /\ Idle
    /\ \E a \in get_current_user_credentials(authorization) :
         IF a.status # 0
         THEN raise_HTTPException("get_users", a)
         ELSE get_users_request(a.sub)

private_users ==
    \E authorization \in Authorizations, exam_id \in KnownIds(uuid.exam) :
        authorized_register_for_exam(authorization, exam_id)

private_supervisor ==
    \E authorization \in Authorizations : authorized_get_ungraded_assignments(authorization)

private_admin ==
    \E authorization \in Authorizations : authorized_get_users(authorization)

\* the routes that depend on get_current_user, with logins, the passing of
\* time and the deletion of users
NextAuth ==
    \/ login
    \/ logout
    \/ get_current_user_info
    \/ private_users
    \/ commit_register_for_exam
    \/ private_supervisor
    \/ private_admin
    \/ user_delete
    \/ commit_user_delete
    \/ tick
    \/ send_response

SpecAuth == InitUsers /\ [][NextAuth]_vars

(* --------------------------- POST /auth/refresh ------------------------ *)
\* AuthService.refresh_token(user)
AuthService_refresh_token(u) == create_access_token_for_user(u)

\* POST /auth/refresh: Depends(get_current_user), then a token for the row
\* it loaded; the client replaces the token it presented by the new one
refresh_token_request(authorization) ==
    /\ Idle
    /\ \E a \in get_current_user_credentials(authorization) :
         IF a.status # 0
         THEN raise_HTTPException("refresh_token", a)
         ELSE \E current_user \in user_get_by_id(a.sub) :
                LET access_token == AuthService_refresh_token(current_user)
                IN /\ response' = [op |-> "refresh_token", status |-> HTTP_200_OK,
                                   sub |-> a.sub,
                                   authorization |-> authorization,
                                   access_token |-> <<access_token>>]
                   /\ tokens' = {IF s.access_token = authorization.credentials
                                 THEN [s EXCEPT !.access_token = access_token]
                                 ELSE s : s \in tokens}
                   /\ UNCHANGED <<tables, req, now>>

refresh_token == \E authorization \in Authorizations : refresh_token_request(authorization)

(* ------------------- dependencies on the caller's role ----------------- *)
\* the role claim of the token presented
token_role(authorization) == verify_token(authorization.credentials)[1].role

\* current_user.role: the role column of the row get_current_user loaded
\* by the user_id of the token
current_user_role(authorization) ==
    role_of(user_get_by_id(verify_token(authorization.credentials)[1].user_id))

\* get_current_active_user, get_current_admin_user,
\* get_current_supervisor_user, get_current_supervisor_or_admin_user, from
\* the header: the outcomes of get_current_user, and 403 when the checker
\* of the requirement raises for current_user.role
get_current_user_with_role(required, authorization) ==
    {IF a.status # 0 THEN a
     ELSE IF required = "any-authenticated" THEN a
     ELSE IF require(required, current_user_role(authorization)) THEN a
     ELSE [status |-> HTTP_403_FORBIDDEN, sub |-> a.sub] :
        a \in get_current_user_credentials(authorization)}

\* a request to an endpoint that depends on one of them
depends_on_role ==
    /\ Idle
    /\ \E authorization \in Authorizations, required \in Requirements :
         \E a \in get_current_user_with_role(required, authorization) :
           response' = [op |-> "Depends", required |-> required,
                        authorization |-> authorization,
                        status |-> IF a.status = 0 THEN HTTP_200_OK ELSE a.status]
    /\ UNCHANGED <<tables, req, sessions>>

\* sessions: logins and refreshes, requests with the tokens held, changes of
\* the users' rows, and the passing of time
NextSession ==
    \/ login
    \/ refresh_token
    \/ depends_on_role
    \/ user_update
    \/ commit_user_update
    \/ tick
    \/ send_response

SpecSession == InitUsers /\ [][NextSession]_vars

(* ---------------------- /private/admin/migration ----------------------- *)
\* the user_role parameter of the query string: NULL when the request has
\* none, <<value>> otherwise
UserRoleParams == {NULL, <<ADMIN>>, <<SUPERVISOR>>, <<USER>>}

\* Depends(require_admin), with require_admin(user_role: str) of
\* core/permissions: FastAPI takes the parameter of the dependency from the
\* query string of the request, and answers 422 when it is missing.  The
\* status of the exception, 0 when the dependency returns.
Depends_require_admin(user_role) ==
    IF user_role = NULL THEN add_exception_handlers("ValidationError")
    ELSE IF check_admin_permission(user_role[1]) THEN 0
    ELSE HTTP_403_FORBIDDEN

\* DATABASE_URL and the type of the id column of "user" in that database:
\* no URL, a URL that is not of postgresql, postgresql with either type
Databases == {"", "sqlite", "VARCHAR", "INTEGER"}

\* POST /private/admin/migration/migrate-to-uuid.  No URL: the handler's
\* HTTPException is caught by its except clause and raised again as 500.
\* INTEGER: the rows are deleted, the tables dropped and created again.
migrate_database_to_uuid_request(authorization, user_role, database_url) ==
    /\ Idle
    /\ LET denied == Depends_require_admin(user_role)
           result(status, action) ==
               [op |-> "migrate_database_to_uuid", status |-> status,
                authorization |-> authorization, user_role |-> user_role,
                executed |-> denied = 0, action |-> action]
       IN IF denied # 0
          THEN response' = result(denied, "") /\ UNCHANGED tables
          ELSE IF database_url = ""
          THEN response' = result(HTTP_500_INTERNAL_SERVER_ERROR, "") /\ UNCHANGED tables
          ELSE IF database_url \in {"sqlite", "VARCHAR"}
          THEN response' = result(HTTP_200_OK, "none_needed") /\ UNCHANGED tables
          ELSE /\ response' = result(HTTP_200_OK, "migrated")
               /\ user' = {}
               /\ exam' = {}
               /\ user_exam' = {}
               /\ UNCHANGED uuid
    /\ UNCHANGED <<req, sessions>>

migrate_database_to_uuid ==
    \E authorization \in Authorizations, user_role \in UserRoleParams,
       database_url \in Databases :
        migrate_database_to_uuid_request(authorization, user_role, database_url)

\* GET /private/admin/migration/schema-status
check_schema_status_request(authorization, user_role, database_url) ==
    /\ Idle
    /\ LET denied == Depends_require_admin(user_role)
       IN response' = [op |-> "check_schema_status",
                       status |-> IF denied # 0 THEN denied ELSE HTTP_200_OK,
                       authorization |-> authorization, user_role |-> user_role,
                       executed |-> denied = 0,
                       action |-> IF denied # 0 THEN "" ELSE database_url]
    /\ UNCHANGED <<tables, req, sessions>>

check_schema_status ==
    \E authorization \in Authorizations, user_role \in UserRoleParams,
       database_url \in Databases :
        check_schema_status_request(authorization, user_role, database_url)

NextMigration ==
    \/ login
    \/ migrate_database_to_uuid
    \/ check_schema_status
    \/ send_response

SpecMigration == InitUsers /\ [][NextMigration]_vars

(* ------------------------- verify_password ---------------------------- *)
\* values of the hashed_password column, a String(255): bcrypt hashes, and
\* strings that are none
StoredHashes ==
    {hash_password(p, salt) : p \in {"student123", "password123"},
                              salt \in {"salt", "pepper"}}
    \cup {<< >>, <<"student123">>, <<"$1$", "salt", "student123">>}

PlainPasswords == {"admin123", "student123", "supervisor123", "password123"}

\* the default users with any value in the student's hashed_password column
InitPassword ==
    /\ \E hashed_password \in StoredHashes :
         user = {IF u.id = 3 THEN [u EXCEPT !.hashed_password = hashed_password]
                 ELSE u : u \in default_users}
    /\ exam = {}
    /\ user_exam = {}
    /\ uuid = [user |-> 3, exam |-> 0, user_exam |-> 0]
    /\ req = EmptyBag
    /\ response = NoResponse
    /\ now = 0
    /\ tokens = {}

\* verify_password(plain_password, user.hashed_password) for a user: the
\* value returned, or the exception raised
verify_password_call ==
    /\ Idle
    /\ \E u \in user, plain_password \in PlainPasswords :
         LET exc == verify_password_raises(plain_password, u.hashed_password)
         IN response' = [op |-> "verify_password", status |-> 0,
                         plain_password |-> plain_password,
                         hashed_password |-> u.hashed_password,
                         result |-> IF exc # "" THEN exc
                                    ELSE IF verify_password(plain_password, u.hashed_password)
                                    THEN "True" ELSE "False"]
    /\ UNCHANGED <<tables, req, sessions>>

NextPassword ==
    \/ verify_password_call
    \/ login
    \/ send_response

SpecPassword == InitPassword /\ [][NextPassword]_vars

(* --------------------------- GET /public/exams ------------------------- *)
\* code points of the characters of the titles below
ord ==
    [c \in {"A", "L", "M", "a", "h", "m", "p", "r", "s", "t", "w"} |->
       CASE c = "A" -> 65 [] c = "L" -> 76 [] c = "M" -> 77 [] c = "a" -> 97
         [] c = "h" -> 104 [] c = "m" -> 109 [] c = "p" -> 112 [] c = "r" -> 114
         [] c = "s" -> 115 [] c = "t" -> 116 [] c = "w" -> 119]

\* str.lower / the case folding of ILIKE, on code points
lower(n) == IF n >= 65 /\ n <= 90 THEN n + 32 ELSE n

\* a < b for two strings, by code points
RECURSIVE str_lt(_, _)
str_lt(a, b) ==
    IF b = << >> THEN FALSE
    ELSE IF a = << >> THEN TRUE
    ELSE IF ord[Head(a)] # ord[Head(b)] THEN ord[Head(a)] < ord[Head(b)]
    ELSE str_lt(Tail(a), Tail(b))

\* Exam.title.ilike("%" + title_filter + "%") for a filter without wildcards
ilike(title, title_filter) ==
    \E i \in 0..(Len(title) - Len(title_filter)) :
       \A j \in 1..Len(title_filter) :
          lower(ord[title[i + j]]) = lower(ord[title_filter[j]])

\* the titles of the catalogs listed
TitleList ==
    << <<"M","a","t","h">>, <<"A","r","t","s">>, <<"M","a","p","s">>,
       <<"L","a","w","s">> >>

\* the dates of the catalogs listed, in days from today
Dates == {today, today + 1, today + 2}

\* the filters of ExamRepository.get_all and count; None and "" filter
\* nothing
apply_filters(rows, title_filter, date_from, date_to) ==
    {e \in rows :
       /\ title_filter # NULL => ilike(e.title, title_filter)
       /\ date_from # NULL => e.date >= date_from[1]
       /\ date_to # NULL => e.date <= date_to[1]}

\* getattr(Exam, sort_by, Exam.date) of two rows: a comes no later than b.
\* created_at and updated_at are those of the INSERT, and ids are handed out
\* in the order of the INSERTs.
sort_column_le(sort_by, a, b) ==
    CASE sort_by = "title" -> ~str_lt(b.title, a.title)
      [] sort_by \in {"created_at", "updated_at"} -> a.id <= b.id
      [] OTHER -> a.date <= b.date

\* the sequences without repetition of all the elements of a set
RECURSIVE all(_)
all(rows) ==
    IF rows = {} THEN {<< >>}
    ELSE UNION {{<<row>> \o rest : rest \in all(rows \ {row})} : row \in rows}

\* query.order_by(asc(sort_column)) or desc: the orders the database can
\* return the rows in.  Rows equal in the sort column come in any order.
order_by(rows, sort_by, sort_order) ==
    {result \in all(rows) :
       \A i \in 1..(Len(result) - 1) :
          IF sort_order = "desc"
          THEN sort_column_le(sort_by, result[i + 1], result[i])
          ELSE sort_column_le(sort_by, result[i], result[i + 1])}

\* .offset(skip).limit(limit) on an ordered result
offset_limit(result, skip, lim) ==
    SubSeq(result, skip + 1, IF skip + lim < Len(result) THEN skip + lim ELSE Len(result))

\* ExamRepository.get_all: the results the query can give
exam_get_all(rows, skip, lim, title_filter, date_from, date_to, sort_by, sort_order) ==
    {offset_limit(result, skip, lim) :
       result \in order_by(apply_filters(rows, title_filter, date_from, date_to),
                           sort_by, sort_order)}

\* ExamRepository.count
exam_count(rows, title_filter, date_from, date_to) ==
    Cardinality(apply_filters(rows, title_filter, date_from, date_to))

\* CommonQueryParams(page, page_size): page, page_size, offset, limit
CommonQueryParams(page, page_size) ==
    LET p == IF page < 1 THEN 1 ELSE page
        ps == IF page_size < 1 THEN 1 ELSE IF page_size > 100 THEN 100 ELSE page_size
    IN [page |-> p, page_size |-> ps, offset |-> (p - 1) * ps, limit |-> ps]

\* str.lower of a sort_order
sort_order_lower(sort_order) ==
    CASE sort_order = "DESC" -> "desc" [] sort_order = "ASC" -> "asc" [] OTHER -> sort_order

\* the sort_by and sort_order get_public_exams passes on
valid_sort_by(sort_by) ==
    IF sort_by \in {"date", "title", "created_at", "updated_at"} THEN sort_by ELSE "date"

valid_sort_order(sort_order) ==
    IF sort_order_lower(sort_order) \in {"asc", "desc"}
    THEN sort_order_lower(sort_order) ELSE "asc"

\* the sort parameters and the pagination parameters of the requests
SortParams ==
    {[sort_by |-> "date", sort_order |-> "asc"], [sort_by |-> "date", sort_order |-> "DESC"],
     [sort_by |-> "title", sort_order |-> "asc"], [sort_by |-> "title", sort_order |-> "desc"],
     [sort_by |-> "created_at", sort_order |-> "asc"], [sort_by |-> "name", sort_order |-> "up"]}

PaginationParams ==
    {[page |-> 1, page_size |-> 10], [page |-> 0, page_size |-> 10],
     [page |-> 1, page_size |-> 1], [page |-> 2, page_size |-> 1],
     [page |-> 3, page_size |-> 1], [page |-> 2, page_size |-> 2],
     [page |-> 1, page_size |-> 0], [page |-> 0 - 1, page_size |-> 101]}

PublicExamsQueries ==
    {[title |-> t, date_from |-> df, date_to |-> dt,
      sort_by |-> s.sort_by, sort_order |-> s.sort_order,
      page |-> p.page, page_size |-> p.page_size] :
        t \in {NULL, <<"m","a">>}, df \in {NULL, <<today + 1>>},
        dt \in {NULL, <<today + 1>>}, s \in SortParams, p \in PaginationParams}

\* total_pages of get_public_exams
total_pages(total_count, page_size) == (total_count + page_size - 1) \div page_size

\* GET /public/exams, no authentication
get_public_exams_request(q) ==
    /\ Idle
    /\ LET pagination == CommonQueryParams(q.page, q.page_size)
           total_count == exam_count(exam, q.title, q.date_from, q.date_to)
       IN \E exams \in exam_get_all(exam, pagination.offset, pagination.limit,
                                    q.title, q.date_from, q.date_to,
                                    valid_sort_by(q.sort_by),
                                    valid_sort_order(q.sort_order)) :
            response' = [op |-> "get_public_exams", status |-> HTTP_200_OK,
                         query |-> q, exams |-> exams,
                         pagination |->
                           [total |-> total_count, page |-> pagination.page,
                            page_size |-> pagination.page_size,
                            total_pages |-> total_pages(total_count, pagination.page_size)]]
    /\ UNCHANGED <<tables, req, sessions>>

get_public_exams == Idle /\ \E q \in PublicExamsQueries : get_public_exams_request(q)

\* the queries of a client that reads the list page by page
PagedQueries ==
    {[title |-> t, date_from |-> NULL, date_to |-> dt,
      sort_by |-> sort_by, sort_order |-> "asc",
      page |-> 1, page_size |-> page_size] :
        t \in {NULL, <<"m","a">>}, dt \in {NULL, <<today + 1>>},
        sort_by \in {"date", "title"}, page_size \in {1, 2}}

\* the exams of the requests for the pages page..last of a query, each
\* request with its own query of the database
RECURSIVE get_public_exams_pages(_, _, _)
get_public_exams_pages(q, page, last) ==
    IF page > last THEN {<< >>}
    ELSE LET pagination == CommonQueryParams(page, q.page_size)
         IN {<<exams>> \o rest :
               exams \in exam_get_all(exam, pagination.offset, pagination.limit,
                                       q.title, q.date_from, q.date_to,
                                       valid_sort_by(q.sort_by),
                                       valid_sort_order(q.sort_order)),
               rest \in get_public_exams_pages(q, page + 1, last)}

\* GET /public/exams for page 1, then for each page up to the total_pages
\* of the response, while the catalog does not change
get_public_exams_page_by_page ==
    /\ Idle
    /\ \E q \in PagedQueries :
         LET pagination == CommonQueryParams(q.page, q.page_size)
             total_count == exam_count(exam, q.title, q.date_from, q.date_to)
         IN \E pages \in get_public_exams_pages(q, 1,
                            total_pages(total_count, pagination.page_size)) :
              response' = [op |-> "get_public_exams_page_by_page",
                           status |-> HTTP_200_OK, query |-> q, pages |-> pages]
    /\ UNCHANGED <<tables, req, sessions>>

\* a catalog of exams with the titles of TitleList, each with any date
InitPublic ==
    /\ user = default_users
    /\ \E created \in SUBSET (1..MaxCatalog) :
         \E date \in [created -> Dates] :
           exam = {[id |-> i, title |-> TitleList[i], date |-> date[i]] : i \in created}
    /\ user_exam = {}
    /\ uuid = [user |-> 3, exam |-> MaxCatalog, user_exam |-> 0]
    /\ req = EmptyBag
    /\ response = NoResponse
    /\ now = 0
    /\ tokens = {}

NextPublic ==
    \/ get_public_exams
    \/ get_public_exams_page_by_page
    \/ send_response

SpecPublic == InitPublic /\ [][NextPublic]_vars

(* --------------------- UserExam.get_letter_grade ----------------------- *)
\* votes a row may hold, in thousandths: every hundredth of [0, 100]
Grades == {g * 10 : g \in 0..10000}

\* the letter grade with its thresholds exclusive
get_letter_grade_exclusive(row) ==
    IF ~is_graded(row) THEN "N/A"
    ELSE IF row.vote[1] > 90000 THEN "A"
    ELSE IF row.vote[1] > 80000 THEN "B"
    ELSE IF row.vote[1] > 70000 THEN "C"
    ELSE IF row.vote[1] > 60000 THEN "D"
    ELSE "F"

\* UserExam.get_letter_grade
get_letter_grade(row) ==
    IF ~is_graded(row) THEN "N/A"
    ELSE IF row.vote[1] >= 90000 THEN "A"
    ELSE IF row.vote[1] >= 80000 THEN "B"
    ELSE IF row.vote[1] >= 70000 THEN "C"
    ELSE IF row.vote[1] >= 60000 THEN "D"
    ELSE "F"

\* a ledger of one row, pending or with any vote, for either exam
InitLetter ==
    /\ user = default_users
    /\ exam = {[id |-> 1, title |-> validate_title(<<"M","a","t","h">>), date |-> today]}
    /\ \E exam_id \in {1, 2}, vote \in {NULL} \cup {<<g>> : g \in Grades} :
         user_exam = {[id |-> 1, user_id |-> 3, exam_id |-> exam_id, vote |-> vote]}
    /\ uuid = [user |-> 3, exam |-> 1, user_exam |-> 1]
    /\ req = EmptyBag
    /\ response = NoResponse
    /\ now = 0
    /\ tokens = {}

\* user_exam.get_letter_grade() on a row of the ledger; the value returned
\* goes out as the response's letter_grade
get_letter_grade_call ==
    /\ Idle
    /\ \E row \in user_exam :
         response' = [op |-> "get_letter_grade", status |-> HTTP_200_OK,
                      letter_grade |-> get_letter_grade(row)]
    /\ UNCHANGED <<tables, req, sessions>>

NextLetter ==
    \/ get_letter_grade_call
    \/ send_response

SpecLetter == InitLetter /\ [][NextLetter]_vars

(* ------------------------------ statistics ----------------------------- *)
\* sum(ue.vote for ue in rows), in thousandths
RECURSIVE sum(_)
sum(rows) ==
    IF rows = {} THEN 0
    ELSE LET row == CHOOSE row \in rows : TRUE
         IN row.vote[1] + sum(rows \ {row})

\* round(total / n, 2) in thousandths for n > 0: the nearest hundredth.  A
\* tie goes by the binary expansion of the float, either way here.
round_div(total, n) ==
    LET q == total \div (10 * n)
        r == total - q * 10 * n
    IN IF 2 * r < 10 * n THEN {q * 10}
       ELSE IF 2 * r > 10 * n THEN {(q + 1) * 10}
       ELSE {q * 10, (q + 1) * 10}

\* the statistics with the mean taken over all the rows of the exam
get_exam_statistics_of_all(exam_id) ==
    LET user_exams == {ue \in user_exam : ue.exam_id = exam_id}
        graded_exams == {ue \in user_exams : ue.vote # NULL}
    IN {[user_count |-> Cardinality(user_exams),
         graded_count |-> Cardinality(graded_exams),
         pending_count |-> Cardinality(user_exams) - Cardinality(graded_exams),
         average_vote |-> average_vote] :
           average_vote \in
             IF graded_exams # {}
             THEN round_div(sum(graded_exams), Cardinality(user_exams))
             ELSE {0}}

\* ExamRepository.get_exam_statistics: the dictionaries it can return
get_exam_statistics(exam_id) ==
    LET user_exams == {ue \in user_exam : ue.exam_id = exam_id}
        graded_exams == {ue \in user_exams : ue.vote # NULL}
    IN {[user_count |-> Cardinality(user_exams),
         graded_count |-> Cardinality(graded_exams),
         pending_count |-> Cardinality(user_exams) - Cardinality(graded_exams),
         average_vote |-> average_vote] :
           average_vote \in
             IF graded_exams # {}
             THEN round_div(sum(graded_exams), Cardinality(graded_exams))
             ELSE {0}}

\* exam_repo.get_exam_statistics(exam_id) on the ledger
get_exam_statistics_call ==
    /\ Idle
    /\ \E exam_id \in KnownIds(uuid.exam) : \E stats \in get_exam_statistics(exam_id) :
         response' = [op |-> "get_exam_statistics", status |-> HTTP_200_OK,
                      exam_id |-> exam_id, stats |-> stats]
    /\ UNCHANGED <<tables, req, sessions>>

\* get_user_exams without its filter: the rows of every user
get_user_exams_all(user_id) == user_exam

\* ExamRepository.get_user_exams
get_user_exams(user_id) == {ue \in user_exam : ue.user_id = user_id}

\* UserExam.grade_status
grade_status(row) == IF is_graded(row) THEN "Graded" ELSE "Pending"

\* UserExamResponse of a row whose exam is loaded
UserExamResponse(ue) ==
    LET e == CHOOSE x \in exam_get_by_id(ue.exam_id) : TRUE
    IN [exam_id |-> e.id, exam_title |-> e.title, exam_date |-> e.date,
        vote |-> ue.vote, is_graded |-> is_graded(ue),
        grade_status |-> grade_status(ue), letter_grade |-> get_letter_grade(ue)]

\* the "statistics" dictionaries get_my_exams can return for the responses:
\* average_grade is None when the mean is 0.0, which is falsy
my_exams_statistics(exam_responses) ==
    LET total_exams == Cardinality(exam_responses)
        graded_exams == {er \in exam_responses : er.is_graded}
        graded_count == Cardinality(graded_exams)
        average_grade == IF graded_exams # {} THEN sum(graded_exams) ELSE 0
    IN {[total_exams |-> total_exams,
         graded_exams |-> graded_count,
         pending_exams |-> total_exams - graded_count,
         average_grade |-> rounded,
         completion_rate |-> completion_rate] :
           rounded \in IF average_grade # 0
                       THEN {<<r>> : r \in round_div(average_grade, graded_count)}
                       ELSE {NULL},
           completion_rate \in IF total_exams > 0
                               THEN round_div(graded_count * 100000, total_exams)
                               ELSE {0}}

\* GET /private/users/me/exams, with the token's subject: get_current_user
\* (401), the caller's rows with their exams, and the statistics.  A row
\* whose exam is gone has user_exam.exam None, and the AttributeError of
\* its .id leaves the handler.
get_my_exams_request(sub) ==
    /\ Idle
    /\ LET current_user == get_current_user(sub)
           user_exams == get_user_exams((CHOOSE u \in current_user : TRUE).id)
       IN IF current_user = {}
          THEN response' = Response("get_my_exams", HTTP_401_UNAUTHORIZED)
          ELSE IF \E ue \in user_exams : exam_get_by_id(ue.exam_id) = {}
          THEN response' = Response("get_my_exams", add_exception_handlers("AttributeError"))
          ELSE LET exam_responses == {UserExamResponse(ue) : ue \in user_exams}
               IN \E statistics \in my_exams_statistics(exam_responses) :
                    response' = [op |-> "get_my_exams", status |-> HTTP_200_OK,
                                 sub |-> sub, exams |-> exam_responses,
                                 statistics |-> statistics]
    /\ UNCHANGED <<tables, req, sessions>>

get_my_exams ==
    Idle /\ \E sub \in KnownIds(uuid.user) : get_my_exams_request(sub)

\* votes of the vote column, in thousandths
StoredVotes == {0, 60000, 60010, 92000}

\* a ledger with any registrations of the default users for two exams of
\* the catalog, each pending or with any vote
InitStatistics ==
    /\ user = default_users
    /\ exam = {[id |-> 1, title |-> validate_title(<<"M","a","t","h">>), date |-> today],
               [id |-> 2, title |-> validate_title(<<"A","r","t","s">>), date |-> today + 1]}
    /\ \E registered \in SUBSET {<<1, 1>>, <<2, 1>>, <<3, 1>>, <<3, 2>>} :
         \E vote \in [registered -> {NULL} \cup {<<v>> : v \in StoredVotes}] :
           user_exam = {[id |-> IF p[2] = 2 THEN 4 ELSE p[1], user_id |-> p[1],
                         exam_id |-> p[2], vote |-> vote[p]] : p \in registered}
    /\ uuid = [user |-> 3, exam |-> 2, user_exam |-> 4]
    /\ req = EmptyBag
    /\ response = NoResponse
    /\ now = 0
    /\ tokens = {}

NextStatistics ==
    \/ get_exam_statistics_call
    \/ get_my_exams
    \/ send_response

SpecStatistics == InitStatistics /\ [][NextStatistics]_vars

\* the default users and two exams of the catalog, nobody registered
InitMyExams ==
    /\ user = default_users
    /\ exam = {[id |-> 1, title |-> validate_title(<<"M","a","t","h">>), date |-> today],
               [id |-> 2, title |-> validate_title(<<"A","r","t","s">>), date |-> today + 1]}
    /\ user_exam = {}
    /\ uuid = [user |-> 3, exam |-> 2, user_exam |-> 0]
    /\ req = EmptyBag
    /\ response = NoResponse
    /\ now = 0
    /\ tokens = {}

\* registrations by any user: every role passes get_current_active_user
Registrations == {<<1, 1>>, <<2, 1>>, <<3, 1>>, <<3, 2>>}

any_user_register_for_exam ==
    Idle /\ \E p \in Registrations : register_for_exam_request(p[1], p[2])

\* the supervisor grades the registration of any user
supervisor_assign_vote_to_exam ==
    Idle /\ \E p \in Registrations : assign_vote_to_exam_request(2, p[2], p[1], 92000)

NextMyExams ==
    \/ send_response
    \/ any_user_register_for_exam
    \/ commit_register_for_exam
    \/ supervisor_assign_vote_to_exam
    \/ commit_assign_vote_to_exam
    \/ get_my_exams

SpecMyExams == InitMyExams /\ [][NextMyExams]_vars

(* ------------------------------ properties ----------------------------- *)
\* no user and no exam was ever deleted: every foreign key of a pending
\* INSERT into user_exam is satisfied, every loaded row is still there
NothingDeleted == Cardinality(user) = uuid.user /\ Cardinality(exam) = uuid.exam

\* the caller of a supervisor endpoint is authenticated and authorized
IsSupervisor(sub) ==
    /\ get_current_user(sub) # {}
    /\ check_supervisor_permission(role_of(get_current_user(sub)))

\* a step that takes a request of this handler: it answers it at once, or
\* adds it to the requests in flight with no response yet
Takes(op) ==
    \/ response'.op = op /\ req' = req
    \/ /\ response' = NoResponse
       /\ \E r \in BagToSet(req') : r.op = op /\ CopiesIn(r, req') > CopiesIn(r, req)

\* C1: in every reachable state there is at most one Assignment (row of
\* user_exam) for each (user, exam) pair.
C1_OneAssignmentPerPair ==
    \A a, b \in user_exam : (a.user_id = b.user_id /\ a.exam_id = b.exam_id) => a = b

\* C1: the commit of a register request was refused while every user and
\* every exam is in place, so for the pair's second row.
C1_DuplicateRefused ==
    /\ response = Response("register_for_exam", HTTP_500_INTERNAL_SERVER_ERROR)
    /\ NothingDeleted
    /\ user_exam # {}

\* C2 as the claim states it: the commit of a register request whose pair
\* got its Assignment from a concurrent request after the existence check
\* ends with Conflict (409).
C2_RacingRegisterConflict ==
    [][\A r \in BagToSet(req) :
         (/\ assign_exam_to_user_commit(r)
          /\ \E ue \in user_exam : ue.user_id = r.user_id /\ ue.exam_id = r.exam_id)
         => response'.status = HTTP_409_CONFLICT]_vars

\* C2: a register commit was refused with 500 while every user and every
\* exam is in place, the pair has its one row and no request is in flight.
C2_RaceAnswered500 ==
    /\ response = Response("register_for_exam", HTTP_500_INTERNAL_SERVER_ERROR)
    /\ NothingDeleted
    /\ Cardinality(user_exam) = 1
    /\ req = EmptyBag

\* C3: a register request of an authenticated user for an existing exam the
\* user already has an Assignment for is answered 409, and the ledger is as
\* it was (the Assignment keeps its vote, no row is added).
C3_DuplicateRegisterConflict ==
    [][Takes("register_for_exam") =>
       \A sub \in Students, exam_id \in KnownIds(uuid.exam) :
         (/\ get_current_user(sub) # {}
          /\ exam_get_by_id(exam_id) # {}
          /\ \E ue \in user_exam : ue.user_id = sub /\ ue.exam_id = exam_id
          /\ register_for_exam_request(sub, exam_id))
         => /\ response' = Response("register_for_exam", HTTP_409_CONFLICT)
            /\ user_exam' = user_exam
            /\ req' = req]_vars

\* C3: a register request was answered 409 with a graded Assignment in the
\* ledger.
C3_ConflictAnswered ==
    /\ response = Response("register_for_exam", HTTP_409_CONFLICT)
    /\ \E ue \in user_exam : is_graded(ue)

\* C4 as the claim states it: the commit of a create-exam request whose
\* title is in the catalog ends with Conflict (409) and the catalog is as it
\* was.
C4_DuplicateTitleConflict ==
    [][\A r \in BagToSet(req) :
         (/\ exam_create_commit(r)
          /\ \E e \in exam : e.title = r.title)
         => /\ response'.status = HTTP_409_CONFLICT
            /\ exam' = exam]_vars

\* C5 as the claim states it: a create of a user whose email is taken ends
\* with Conflict (409).
C5_DuplicateEmailConflict ==
    [][\A email \in Emails, role \in UserRole :
         (/\ user_create_call(email, role)
          /\ \E u \in user : u.email = email)
         => response'.status = HTTP_409_CONFLICT]_vars

\* C5: a create of a user was refused with ValidationError (422).
C5_DuplicateAnswered422 ==
    response = Response("user_create", HTTP_422_UNPROCESSABLE_ENTITY)

\* C6: in every reachable state no two rows of the user table have the
\* same email, whatever creates, updates (of the email too) and deletes were
\* committed.
C6_EmailUnique ==
    \A a, b \in user : a.email = b.email => a = b

\* C6: the commit of an update was refused while no user was ever deleted,
\* so the row is in place and the refusal is the one for its new email.
C6_UpdateRefused ==
    /\ response = Response("user_update", HTTP_500_INTERNAL_SERVER_ERROR)
    /\ NothingDeleted

C8_VoteInRange ==
    [][/\ \A ue \in user_exam' :
            ue.vote = NULL \/ (0 <= ue.vote[1] /\ ue.vote[1] <= 100000)
       /\ Takes("assign_vote_to_exam") =>
          \A i \in VoteRequests :
            (/\ ~(0 <= i.vote /\ i.vote <= 100000)
             /\ IsSupervisor(i.sub)
             /\ assign_vote_to_exam_request(i.sub, i.exam_id, i.user_id, i.vote))
            => /\ response' = Response("assign_vote_to_exam", HTTP_422_UNPROCESSABLE_ENTITY)
               /\ user_exam' = user_exam
               /\ req' = req]_vars

\* C8: a vote request was answered 422 with a graded Assignment in the
\* ledger.
C8_ValidationAnswered ==
    /\ response = Response("assign_vote_to_exam", HTTP_422_UNPROCESSABLE_ENTITY)
    /\ \E ue \in user_exam : is_graded(ue)

\* the ledger with the vote of row ue set to v
WithVote(ue, v) == (user_exam \ {ue}) \cup {[ue EXCEPT !.vote = <<v>>]}

\* C9, amended: the commit of a vote request with vote g that is answered
\* 200 sets the Assignment's vote to g rounded to two decimals, whatever it
\* was before, and leaves every other Assignment, every user and every exam
\* as it was.
C9_VoteSetRounded ==
    [][\A r \in BagToSet(req) :
         (assign_vote_commit(r) /\ response'.status = HTTP_200_OK)
         => \E ue \in user_exam :
               /\ ue.id = r.id
               /\ user_exam' = WithVote(ue, round2(r.body))
               /\ user' = user
               /\ exam' = exam]_vars

\* C9 as the claim states it: the commit sets the Assignment's vote to g.
C9_VoteSetExactly ==
    [][\A r \in BagToSet(req) :
         (assign_vote_commit(r) /\ response'.status = HTTP_200_OK)
         => \E ue \in user_exam :
               /\ ue.id = r.id
               /\ user_exam' = WithVote(ue, r.body)
               /\ user' = user
               /\ exam' = exam]_vars

\* C9: a vote of 59.996 was committed as 60.00 next to another Assignment.
C9_RoundedVoteStored ==
    /\ response = Response("assign_vote_to_exam", HTTP_200_OK)
    /\ \E ue \in user_exam : ue.vote = <<60000>>
    /\ Cardinality(user_exam) > 1

\* C10: a row that enters the ledger is Pending (no vote) and enters by a
\* register commit; a row goes from Pending to Graded only in a vote commit;
\* a Graded row is Graded after every step that leaves it in the ledger.
C10_PendingThenGraded ==
    [][/\ \A b \in user_exam' :
            (~ \E a \in user_exam : a.id = b.id)
            => ~is_graded(b) /\ response'.op = "register_for_exam"
       /\ \A a \in user_exam, b \in user_exam' :
            a.id = b.id
            => /\ is_graded(a) => is_graded(b)
               /\ (~is_graded(a) /\ is_graded(b)) => response'.op = "assign_vote_to_exam"
      ]_vars

\* C10: a vote request was committed and the ledger holds a Graded and a
\* Pending Assignment.
C10_GradedAndPending ==
    /\ response = Response("assign_vote_to_exam", HTTP_200_OK)
    /\ \E a, b \in user_exam : is_graded(a) /\ ~is_graded(b)

\* C11 as the claim states it: in every reachable state every Assignment
\* references a user and an exam that both exist, whatever deletes,
\* registrations and votes interleaved.
C11_ReferencesExist ==
    \A ue \in user_exam :
        user_get_by_id(ue.user_id) # {} /\ exam_get_by_id(ue.exam_id) # {}

\* C11: a registration was committed (200) for an exam that a delete
\* removed after the registration's lookup; its Assignment is in the ledger
\* and its exam is not in the catalog.
C11_DanglingAssignment ==
    /\ response = Response("register_for_exam", HTTP_200_OK)
    /\ \E ue \in user_exam : ue.id = uuid.user_exam /\ exam_get_by_id(ue.exam_id) = {}

\* C12: the letter grade returned for a row is "N/A" when the row has no
\* vote, and otherwise A for vote >= 90, B for 80 <= vote < 90, C for
\* 70 <= vote < 80, D for 60 <= vote < 70 and F for vote < 60, whatever the
\* row's other fields are.
C12_LetterGradeOfVote ==
    response.op = "get_letter_grade" =>
    \A row \in user_exam :
        /\ row.vote = NULL <=> response.letter_grade = "N/A"
        /\ row.vote # NULL =>
            LET grade == row.vote[1]
            IN /\ grade >= 90000 <=> response.letter_grade = "A"
               /\ (80000 <= grade /\ grade < 90000) <=> response.letter_grade = "B"
               /\ (70000 <= grade /\ grade < 80000) <=> response.letter_grade = "C"
               /\ (60000 <= grade /\ grade < 70000) <=> response.letter_grade = "D"
               /\ grade < 60000 <=> response.letter_grade = "F"

\* C12: the letter grade of a vote of exactly 60 was returned, and it is D.
C12_BoundaryGraded ==
    /\ response.op = "get_letter_grade"
    /\ response.letter_grade = "D"
    /\ \E row \in user_exam : row.vote = <<60000>>

\* the caller of a request is authenticated and is not an administrator
IsNotAdmin(sub) ==
    /\ get_current_user(sub) # {}
    /\ role_of(get_current_user(sub)) \in {SUPERVISOR, USER}

IsNotSupervisor(sub) ==
    /\ get_current_user(sub) # {}
    /\ role_of(get_current_user(sub)) \in {ADMIN, USER}

\* C14: the vote of a row changes only in the commit of a vote request that
\* a supervisor made; a vote request (whatever its body) and an
\* ungraded-assignments request of an administrator or a regular user are
\* answered 403, with the ledger as it was and nothing left to commit.
C14_VoteOfSupervisor ==
    [][/\ \A a \in user_exam, b \in user_exam' :
            (a.id = b.id /\ a.vote # b.vote)
            => \E r \in BagToSet(req) :
                  /\ r.op = "assign_vote_to_exam"
                  /\ r.role = SUPERVISOR
                  /\ r.id = a.id
                  /\ req' = req (-) SetToBag({r})
                  /\ response' = Response("assign_vote_to_exam", HTTP_200_OK)
       /\ Takes("assign_vote_to_exam") =>
            \A i \in VoteRequests :
                (/\ IsNotSupervisor(i.sub)
                 /\ assign_vote_to_exam_request(i.sub, i.exam_id, i.user_id, i.vote))
                => /\ response' = Response("assign_vote_to_exam", HTTP_403_FORBIDDEN)
                   /\ req' = req
                   /\ user_exam' = user_exam
       /\ Takes("get_ungraded_assignments") =>
            \A sub \in 1..uuid.user :
                (IsNotSupervisor(sub) /\ get_ungraded_assignments_request(sub))
                => /\ response' = Response("get_ungraded_assignments", HTTP_403_FORBIDDEN)
                   /\ req' = req
                   /\ user_exam' = user_exam
      ]_vars

\* C14: a vote request was answered 403 with a Pending and a Graded
\* Assignment in the ledger.
C14_VoteForbidden ==
    /\ response = Response("assign_vote_to_exam", HTTP_403_FORBIDDEN)
    /\ \E a, b \in user_exam : is_graded(a) /\ ~is_graded(b)

\* C15: the outcome of a permission check depends on the role value and the
\* requirement only: admin-only passes exactly admin, supervisor-only
\* exactly supervisor, supervisor-or-admin exactly supervisor and admin,
\* any-authenticated exactly admin, supervisor and user; any other role value
\* is denied whatever is required.
C15_PermissionGate ==
    response.op \in Requirements =>
    LET ok == response.status = HTTP_200_OK
        role == response.role
    IN /\ response.status \in {HTTP_200_OK, HTTP_403_FORBIDDEN}
       /\ response.op = "admin-only" => (ok <=> role = "admin")
       /\ response.op = "supervisor-only" => (ok <=> role = "supervisor")
       /\ response.op = "supervisor-or-admin" => (ok <=> role \in {"supervisor", "admin"})
       /\ response.op = "any-authenticated" => (ok <=> role \in {"admin", "supervisor", "user"})
       /\ role \notin {"admin", "supervisor", "user"} => ~ok

\* C15: any-authenticated was checked against a role value that is none of
\* the three roles, and denied.
C15_OtherRoleDenied ==
    /\ response.op = "any-authenticated"
    /\ response.role = "guest"
    /\ response.status = HTTP_403_FORBIDDEN

\* C16: the users listing answers a supervisor with accounts of role user
\* only, an admin with all the accounts, and a caller of role user with 403.
C16_UsersListing ==
    (response.op = "get_users" /\ response.status # HTTP_401_UNAUTHORIZED) =>
    LET role == role_of(get_current_user(response.sub))
    IN /\ role = USER => response.status = HTTP_403_FORBIDDEN
       /\ role = SUPERVISOR =>
            /\ response.status = HTTP_200_OK
            /\ \A u \in response.users : u.role = USER
       /\ role = ADMIN =>
            /\ response.status = HTTP_200_OK
            /\ response.users = user

\* C16: an admin was answered 200 with fewer accounts than the table holds.
C16_AdminListingTruncated ==
    /\ response.op = "get_users"
    /\ response.status = HTTP_200_OK
    /\ role_of(get_current_user(response.sub)) = ADMIN
    /\ Cardinality(response.users) < Cardinality(user)

\* C17: a token issued with a lifetime of zero expires at the instant of its
\* issue, not after the default lifetime, and verify_token on it right after
\* the issue gives invalid.
C17_ZeroLifetimeInvalid ==
    (response.op = "create_access_token" /\ response.expires_delta = <<0>>) =>
    /\ response.access_token.claims[1].exp = now
    /\ verify_token(response.access_token) = NULL

\* C17: a token issued with a lifetime of zero carries the default lifetime
\* and verifies right after its issue.
C17_ZeroLifetimeAccepted ==
    /\ response.op = "create_access_token"
    /\ response.expires_delta = <<0>>
    /\ response.access_token.claims[1].exp = now + access_token_expire_minutes
    /\ verify_token(response.access_token) # NULL

\* the session's token is signed by the server, has not passed its exp, and
\* names a user of the credential store
InDate(s) ==
    /\ s.access_token.key = secret_key
    /\ ~(s.access_token.claims[1].exp < now)
    /\ user_get_by_id(s.access_token.claims[1].user_id) # {}

\* C18: a logout writes nothing on the server, and a token a client has
\* logged out with is accepted by the routes that depend on
\* get_current_user for as long as it has not passed its expiry.
C18_LogoutRevokesNothing ==
    /\ [](\A s \in tokens :
            (s.logged_out /\ InDate(s)) =>
            get_current_user_credentials([scheme |-> "Bearer",
                                          credentials |-> s.access_token])
              = {[status |-> 0, sub |-> s.access_token.claims[1].user_id]})
    /\ [][Takes("logout") => UNCHANGED <<tables, req, now>>]_vars

\* C18: GET /auth/me answered 200 to the token of a session that has logged
\* out and whose expiry is the current minute.
C18_AcceptedAfterLogout ==
    /\ response.op = "get_current_user_info"
    /\ response.status = HTTP_200_OK
    /\ \E s \in tokens :
         /\ s.logged_out
         /\ s.access_token.claims[1].user_id = response.sub
         /\ s.access_token.claims[1].exp = now

\* C19: a login with a well-formed email is answered 200 with a token for
\* the user when a user has that email and the password its hash was made
\* from, and 401 with no token otherwise: for a wrong password as for an
\* unknown email.
C19_LoginOutcome ==
    (response.op = "login" /\ response.email \notin NotEmails) =>
    LET known == {u \in user : u.email = response.email}
        right == {u \in known :
                    \E salt \in gensalt :
                      u.hashed_password = hash_password(response.password, salt)}
    IN IF right # {}
       THEN /\ response.status = HTTP_200_OK
            /\ response.access_token # NULL
            /\ \E u \in right :
                 /\ verify_token(response.access_token[1]) # NULL
                 /\ response.access_token[1].claims[1].user_id = u.id
       ELSE /\ response.status = HTTP_401_UNAUTHORIZED
            /\ response.access_token = NULL

\* C19: a login with the email of a user and the password of another was
\* answered 401.
C19_WrongPasswordRefused ==
    /\ response.op = "login"
    /\ response.status = HTTP_401_UNAUTHORIZED
    /\ \E u \in user : u.email = response.email
    /\ \E u \in user : verify_password(response.password, u.hashed_password)

\* the header is absent or not Bearer, or its token is not a JWT, is signed
\* with another key, has passed its exp, or names a user who is not there
Unauthenticated(authorization) ==
    \/ authorization.scheme # "Bearer"
    \/ authorization.credentials.claims = << >>
    \/ authorization.credentials.key # secret_key
    \/ authorization.credentials.claims[1].exp < now
    \/ user_get_by_id(authorization.credentials.claims[1].user_id) = {}

\* C20: a request to a route that depends on get_current_user whose header
\* is absent or malformed, or whose token is malformed, expired, signed with
\* another key or of a user who no longer exists, is answered 401, and no
\* table is written and nothing stays in flight.
C20_Unauthenticated401 ==
    [][\A authorization \in Authorizations :
         Unauthenticated(authorization) =>
         ((\/ logout_request(authorization)
           \/ get_current_user_info_request(authorization)
           \/ \E exam_id \in KnownIds(uuid.exam) :
                authorized_register_for_exam(authorization, exam_id)
           \/ authorized_get_ungraded_assignments(authorization)
           \/ authorized_get_users(authorization))
          => /\ response'.status = HTTP_401_UNAUTHORIZED
             /\ UNCHANGED <<tables, req>>)]_vars

\* C20: GET /auth/me without a Bearer header was answered 403.
C20_NotAuthenticated403 ==
    /\ response.op = "get_current_user_info"
    /\ response.status = HTTP_403_FORBIDDEN

\* C21: verify_password returns a boolean for every plaintext and every
\* stored hash: True when the hash was made from the plaintext, False
\* otherwise, and False, not an exception, when the hash is malformed.
C21_VerifyIsBoolean ==
    response.op = "verify_password" =>
    /\ response.result \in {"True", "False"}
    /\ response.result = "True" <=>
         \E salt \in {"salt", "pepper"} :
           response.hashed_password = hash_password(response.plain_password, salt)

\* C21: verify_password raised ValueError on a stored hash that is not a
\* bcrypt hash.
C21_MalformedHashRaises ==
    /\ response.op = "verify_password"
    /\ response.result = "ValueError"
    /\ response.hashed_password = <<"student123">>

\* the catalog with its exams created in another order: ids stand for the
\* order of creation
recreated(rows, pi) == {[e EXCEPT !.id = pi[e.id]] : e \in rows}

\* what a listed exam shows of the catalog's content
contents(result) == [i \in DOMAIN result |-> <<result[i].title, result[i].date>>]

\* C22: a public listing whose page holds every match returns exactly the
\* exams dated within [date_from, date_to], an omitted bound being no bound,
\* in the order of the sort field asked for; and, for a sort by date or by
\* title, the same list whatever order the exams were created in.
C22_ListingByDate ==
    (/\ response.op = "get_public_exams"
     /\ response.query.title = NULL
     /\ response.pagination.page = 1
     /\ response.pagination.total <= response.pagination.page_size) =>
    LET q == response.query
        exams == response.exams
        sort_by == valid_sort_by(q.sort_by)
        sort_order == valid_sort_order(q.sort_order)
        ids == {e.id : e \in exam}
    IN /\ {exams[i] : i \in DOMAIN exams}
            = {e \in exam : /\ q.date_from # NULL => e.date >= q.date_from[1]
                            /\ q.date_to # NULL => e.date <= q.date_to[1]}
       /\ \A i, j \in DOMAIN exams : i # j => exams[i] # exams[j]
       /\ \A i \in 1..(Len(exams) - 1) :
            IF sort_order = "desc"
            THEN sort_column_le(sort_by, exams[i + 1], exams[i])
            ELSE sort_column_le(sort_by, exams[i], exams[i + 1])
       /\ sort_by \in {"date", "title"} =>
            \A pi \in {f \in [ids -> ids] : \A a, b \in ids : f[a] = f[b] => a = b} :
               \A other \in exam_get_all(recreated(exam, pi), 0, 10, q.title,
                                          q.date_from, q.date_to, sort_by, sort_order) :
                  contents(other) = contents(exams)

\* C22: two exams of the same date were listed by date, the later created
\* first.
C22_TieInCreationOrder ==
    /\ response.op = "get_public_exams"
    /\ valid_sort_by(response.query.sort_by) = "date"
    /\ valid_sort_order(response.query.sort_order) = "asc"
    /\ Len(response.exams) = 2
    /\ response.exams[1].date = response.exams[2].date
    /\ response.exams[1].id > response.exams[2].id

\* the counts of the statistics returned for an exam are those of its rows
CountsOfExam(stats, rows) ==
    /\ stats.user_count = Cardinality(rows)
    /\ stats.graded_count = Cardinality({ue \in rows : ue.vote # NULL})
    /\ stats.pending_count = stats.user_count - stats.graded_count

\* C23 as stated: the statistics of an exam count its Assignments, those
\* with a grade and those without, and the mean is the mean of the grades
\* present, 0 when there is none.
C23_MeanOfGraded ==
    response.op = "get_exam_statistics" =>
    LET rows == {ue \in user_exam : ue.exam_id = response.exam_id}
        graded == {ue \in rows : ue.vote # NULL}
    IN /\ CountsOfExam(response.stats, rows)
       /\ response.stats.average_vote * Cardinality(graded) = sum(graded)
       /\ graded = {} => response.stats.average_vote = 0

\* C23 amended: the counts as stated, and the mean is the mean of the
\* grades present rounded to two decimals: a whole number of hundredths
\* within half a hundredth of the mean, 0 when no grade is present.
C23_RoundedMeanOfGraded ==
    response.op = "get_exam_statistics" =>
    LET rows == {ue \in user_exam : ue.exam_id = response.exam_id}
        graded == {ue \in rows : ue.vote # NULL}
        n == Cardinality(graded)
        d == response.stats.average_vote * n - sum(graded)
    IN /\ CountsOfExam(response.stats, rows)
       /\ response.stats.average_vote % 10 = 0
       /\ 2 * d <= 10 * n /\ 2 * d >= 0 - 10 * n
       /\ graded = {} => response.stats.average_vote = 0

\* C23: statistics of an exam with a pending Assignment and grades whose
\* mean is not a whole number of hundredths.
C23_PendingAndRounded ==
    /\ response.op = "get_exam_statistics"
    /\ response.stats.pending_count >= 1
    /\ response.stats.graded_count >= 2
    /\ response.stats.average_vote * response.stats.graded_count
         # sum({ue \in user_exam : ue.exam_id = response.exam_id /\ ue.vote # NULL})

\* C24: the statistics of GET /private/users/me/exams count the caller's
\* Assignments, those with a grade and those without, and whenever one is
\* graded average_grade is the mean of the grades present, to two decimals.
C24_MyExamsStatistics ==
    (response.op = "get_my_exams" /\ response.status = HTTP_200_OK) =>
    LET rows == {ue \in user_exam : ue.user_id = response.sub}
        graded == {ue \in rows : ue.vote # NULL}
        n == Cardinality(graded)
        st == response.statistics
    IN /\ st.total_exams = Cardinality(rows)
       /\ st.total_exams = st.graded_exams + st.pending_exams
       /\ st.graded_exams = n
       /\ n >= 1 =>
            /\ st.average_grade # NULL
            /\ LET d == st.average_grade[1] * n - sum(graded)
               IN 2 * d <= 10 * n /\ 2 * d >= 0 - 10 * n

\* C24: the caller's one graded Assignment has grade 0 and the statistics
\* give no average.
C24_AverageOfZeroIsNone ==
    /\ response.op = "get_my_exams" /\ response.status = HTTP_200_OK
    /\ response.statistics.graded_exams = 1
    /\ \E ue \in user_exam : ue.user_id = response.sub /\ ue.vote = <<0>>
    /\ response.statistics.average_grade = NULL

\* the Assignments of a user
OwnAssignments(sub) == {ue \in user_exam : ue.user_id = sub}

\* the response lists the exams of the caller's own Assignments, each with
\* the grade of the caller's Assignment, and counts them and no other
OfOwnAssignments ==
    (response.op = "get_my_exams" /\ response.status = HTTP_200_OK) =>
    LET own == OwnAssignments(response.sub)
    IN /\ {er.exam_id : er \in response.exams} = {ue.exam_id : ue \in own}
       /\ \A er \in response.exams : \E ue \in own, e \in exam :
            /\ ue.exam_id = er.exam_id /\ e.id = er.exam_id
            /\ er.vote = ue.vote /\ er.exam_title = e.title /\ er.exam_date = e.date
       /\ response.statistics.total_exams = Cardinality(own)
       /\ response.statistics.graded_exams = Cardinality({ue \in own : ue.vote # NULL})
       /\ response.statistics \in my_exams_statistics(response.exams)

\* a step that adds Assignments is the commit of a register request, for
\* the exam of its path and the user authenticated by its token
RegisteredForCaller ==
    \A ue \in {x \in user_exam' : \A y \in user_exam : y.id # x.id} :
        /\ response'.op = "register_for_exam"
        /\ \E r \in BagToSet(req) :
             /\ r.op = "register_for_exam" /\ CopiesIn(r, req) > CopiesIn(r, req')
             /\ ue.user_id = r.user_id /\ ue.exam_id = r.exam_id

\* C29: the response of GET /private/users/me/exams is determined by the
\* caller's own Assignments and their exams, whatever other users have
\* registered for and been graded, and register creates the Assignment of
\* the authenticated caller and of nobody else.
C29_OwnAssignmentsOnly == []OfOwnAssignments /\ [][RegisteredForCaller]_vars

\* C29: the student reads their exams while another user holds a graded
\* Assignment of the same exam, the student's own being pending.
C29_OthersRegisteredAndGraded ==
    /\ response.op = "get_my_exams" /\ response.status = HTTP_200_OK
    /\ response.sub = 3
    /\ \E mine \in user_exam, theirs \in user_exam :
         /\ mine.user_id = 3 /\ theirs.user_id # 3
         /\ mine.exam_id = theirs.exam_id
         /\ mine.vote = NULL /\ theirs.vote # NULL

\* C25: a successful POST /auth/refresh returns an access token that is not
\* the token presented in the request.
C25_RefreshedTokenDiffers ==
    (response.op = "refresh_token" /\ response.status = HTTP_200_OK) =>
        response.access_token # <<response.authorization.credentials>>

\* C25: a refresh at the time of the login that issued the token, the
\* user's row unchanged, answered with the token presented.
C25_SameTokenReturned ==
    /\ response.op = "refresh_token" /\ response.status = HTTP_200_OK
    /\ response.access_token = <<response.authorization.credentials>>
    /\ response.access_token[1].claims[1].exp = now + access_token_expire_minutes

\* the row of the user a token in date names, loaded by its user_id
StoredUser(authorization) ==
    IF authorization.scheme # "Bearer" THEN {}
    ELSE IF verify_token(authorization.credentials) = NULL THEN {}
    ELSE user_get_by_id(verify_token(authorization.credentials)[1].user_id)

\* C28: a request with a token in date of a user who exists is let through
\* exactly when the role now stored for that user meets the requirement of
\* the endpoint, whatever role claim the token carries.
C28_StoredRoleDecides ==
    (response.op = "Depends" /\ StoredUser(response.authorization) # {}) =>
        \A u \in StoredUser(response.authorization) :
            response.status = IF require(response.required, u.role)
                              THEN HTTP_200_OK ELSE HTTP_403_FORBIDDEN

\* C28: the student, made a supervisor after logging in, passes the
\* supervisor's requirement with the token issued to a regular user.
C28_OldTokenNewRole ==
    /\ response.op = "Depends" /\ response.required = "supervisor-only"
    /\ response.status = HTTP_200_OK
    /\ verify_token(response.authorization.credentials)[1].role = USER
    /\ \E u \in StoredUser(response.authorization) : u.role = SUPERVISOR

\* the migration endpoints
MigrationOps == {"migrate_database_to_uuid", "check_schema_status"}

\* the handler of a migration endpoint runs in this step for a request
\* that does not carry a token in date of a user whose stored role is admin
RunsForOther ==
    /\ response'.op \in MigrationOps
    /\ response'.executed
    /\ \A u \in StoredUser(response'.authorization) : u.role # ADMIN

\* C26: the migration endpoints run only for a caller authenticated by a
\* valid bearer token as a user whose role is admin; every other request,
\* whatever its parameters, is refused before the handler runs.
C26_MigrationAdminOnly == [][~RunsForOther]_vars

\* C26: a request without an Authorization header and with user_role=admin
\* in its query string has run the migration, and the tables are empty.
C26_MigratedWithoutToken ==
    /\ response.op = "migrate_database_to_uuid"
    /\ response.authorization.scheme = ""
    /\ response.user_role = <<ADMIN>>
    /\ response.action = "migrated"
    /\ user = {} /\ exam = {}

\* the Assignments without a grade
Pending_assignments == {ue \in user_exam : ue.vote = NULL}

\* C27: listUngraded, for a caller it lets in, returns exactly the
\* Assignments whose grade is absent, each with its user's e-mail and its
\* exam's title and date.
C27_UngradedListed ==
    (/\ response.op = "get_ungraded_assignments"
     /\ response.status \notin {HTTP_401_UNAUTHORIZED, HTTP_403_FORBIDDEN}) =>
        /\ response.status = HTTP_200_OK
        /\ {[user_id |-> a.user_id, exam_id |-> a.exam_id] : a \in response.assignments}
             = {[user_id |-> ue.user_id, exam_id |-> ue.exam_id] : ue \in Pending_assignments}
        /\ \A a \in response.assignments :
             /\ \E u \in user : u.id = a.user_id /\ u.email = a.user_email
             /\ \E e \in exam : /\ e.id = a.exam_id
                                 /\ e.title = a.exam_title /\ e.date = a.exam_date

\* C27: the supervisor asks for the list while a pending Assignment
\* references an exam that is gone, and gets no list.
C27_NoListForDanglingAssignment ==
    /\ response.op = "get_ungraded_assignments"
    /\ response.status = HTTP_500_INTERNAL_SERVER_ERROR
    /\ \E ue \in Pending_assignments : \A e \in exam : e.id # ue.exam_id

\* the exams of the catalog that match the filter of a query
Matching(q) ==
    {e \in exam : /\ q.title # NULL => ilike(e.title, q.title)
                  /\ q.date_from # NULL => e.date >= q.date_from[1]
                  /\ q.date_to # NULL => e.date <= q.date_to[1]}

\* the number of pages, among those read, that list the exam
TimesListed(pages, e) ==
    Cardinality({<<i, j>> \in (DOMAIN pages) \X (1..MaxCatalog + 1) :
                    j <= Len(pages[i]) /\ pages[i][j] = e})

\* C30: the page of the public list is page max(1, page) of pages of
\* min(max(1, page_size), 100) exams, it holds the exams from offset
\* (page - 1) * page_size on and no more than page_size of them, total is
\* the number of exams that match, total_pages is ceil(total / page_size),
\* and the pages 1..total_pages hold every matching exam exactly once.
C30_Pagination ==
    /\ response.op = "get_public_exams" =>
         LET q == response.query
             p == response.pagination
         IN /\ p.page = IF q.page > 1 THEN q.page ELSE 1
            /\ p.page_size = IF q.page_size < 1 THEN 1
                              ELSE IF q.page_size > 100 THEN 100 ELSE q.page_size
            /\ p.total = Cardinality(Matching(q))
            /\ Len(response.exams) <= p.page_size
            /\ Len(response.exams) =
                 IF p.total - (p.page - 1) * p.page_size <= 0 THEN 0
                 ELSE IF p.total - (p.page - 1) * p.page_size < p.page_size
                 THEN p.total - (p.page - 1) * p.page_size
                 ELSE p.page_size
            /\ p.total_pages * p.page_size >= p.total
            /\ (p.total_pages - 1) * p.page_size < p.total \/ p.total_pages = 0
    /\ response.op = "get_public_exams_page_by_page" =>
         \A e \in Matching(response.query) : TimesListed(response.pages, e) = 1

\* C30: two exams of the same date read by date in pages of one: the
\* first page and the second list the same exam, and the other is on none.
C30_SameExamOnTwoPages ==
    /\ response.op = "get_public_exams_page_by_page"
    /\ valid_sort_by(response.query.sort_by) = "date"
    /\ response.query.page_size = 1
    /\ Len(response.pages) = 2
    /\ response.pages[1] = response.pages[2]
    /\ Len(response.pages[1]) = 1
    /\ \E e \in Matching(response.query) : TimesListed(response.pages, e) = 0

====
